---- MODULE Spec2Model ----
(***************************************************************************)
(* PRISM package manager: the manifest-driven file-installation engine.    *)
(*                                                                         *)
(*   src/src/core/file-manager.js     FileManager (installer, matcher)     *)
(*   src/src/core/manifest-parser.js  ManifestParser (normalize, validate) *)
(*                                                                         *)
(* Text (paths, patterns, documents, names) is a sequence of symbols.  A   *)
(* symbol is one character, or a literal run of characters that no         *)
(* operation on the modelled inputs splits (".claude", ".md", the marker   *)
(* prefixes "# Package: " and "# End Package: ").                          *)
(***************************************************************************)
EXTENDS Integers, Sequences, FiniteSets, TLC

VARIABLES
  mPath, mPattern, mResult,      \* matchesPattern: arguments and result
  files, dirs,                   \* the project tree: file path -> content, directories
  last,                          \* the last installer operation and the tree before it
  steps,                         \* number of installer operations performed
  raw, norm, renorm, stage,      \* manifest pipeline: document, normalize, validate
  call, result,                  \* a call of a pure method: its arguments, its return value
  sourceDir, given,              \* createPackage: the source directory, the manifest passed
  collected, output, created,    \* collectPackageFiles' return, the archive file, the outcome
  history,                       \* per package: the last document operation and its content
  config, pm                     \* PackageManager: .prism/config.json, the last operation

callVars == <<call, result>>
packVars == <<sourceDir, given, collected, output, created>>
pmVars == <<history, config, pm>>

vars == <<mPath, mPattern, mResult, files, dirs, last, steps, raw, norm, renorm, stage,
          callVars, packVars, pmVars>>

(***************************************************************************)
(* Bounds                                                                  *)
(***************************************************************************)
MaxPathLen == 3
MaxPatLen == 4
MaxSteps == 3

(***************************************************************************)
(* Strings (JavaScript String.prototype semantics on symbol sequences)     *)
(***************************************************************************)
\* s.substring(a) / s.substring(a, b) with 0-based indices, 0 <= a <= b.
SubstringFrom(s, a) == SubSeq(s, a + 1, Len(s))
Substring(s, a, b) == SubSeq(s, a + 1, b)

StartsAt(s, t, i) == i + Len(t) <= Len(s) /\ SubSeq(s, i + 1, i + Len(t)) = t

\* s.indexOf(t): the first 0-based position of t in s, or -1.
IndexOf(s, t) ==
  IF \E i \in 0..Len(s) : StartsAt(s, t, i)
  THEN CHOOSE i \in 0..Len(s) :
         StartsAt(s, t, i) /\ \A j \in 0..(i - 1) : ~StartsAt(s, t, j)
  ELSE -1

\* s.includes(t)
Includes(s, t) == IndexOf(s, t) # -1

\* s.replace(t, r) with a string pattern: the first occurrence only.
ReplaceFirst(s, t, r) ==
  LET i == IndexOf(s, t)
  IN IF i = -1 THEN s
     ELSE Substring(s, 0, i) \o r \o SubstringFrom(s, i + Len(t))

(***************************************************************************)
(* Pattern Matcher: FileManager.matchesPattern                             *)
(***************************************************************************)
\* The regex built by the chain of replace() calls: "**" becomes ".*" (pairs
\* taken left to right), a remaining "*" becomes "[^/]*", "?" becomes
\* "[^/]", every other symbol is a literal (escaped where regex-special).
\* A translation in which "*" becomes ".*" and so crosses separators
\* (sensitivity check of C15).
RECURSIVE GlobToRegexGreedy(_)
GlobToRegexGreedy(p) ==
  IF p = <<>> THEN <<>>
  ELSE IF p[1] = "*" THEN <<".*">> \o GlobToRegexGreedy(Tail(p))
  ELSE IF p[1] = "?" THEN <<"[^/]">> \o GlobToRegexGreedy(Tail(p))
  ELSE <<p[1]>> \o GlobToRegexGreedy(Tail(p))

RECURSIVE GlobToRegex(_)
GlobToRegex(p) ==
  IF p = <<>> THEN <<>>
  ELSE IF Len(p) >= 2 /\ p[1] = "*" /\ p[2] = "*"
       THEN <<".*">> \o GlobToRegex(SubSeq(p, 3, Len(p)))
  ELSE IF p[1] = "*" THEN <<"[^/]*">> \o GlobToRegex(Tail(p))
  ELSE IF p[1] = "?" THEN <<"[^/]">> \o GlobToRegex(Tail(p))
  ELSE <<p[1]>> \o GlobToRegex(Tail(p))

\* new RegExp("^" + re + "$").test(s)
RECURSIVE RegexTest(_, _)
RegexTest(re, s) ==
  IF re = <<>> THEN s = <<>>
  ELSE LET h == Head(re)
           t == Tail(re)
       IN CASE h = ".*" ->
                 \E k \in 0..Len(s) : RegexTest(t, SubstringFrom(s, k))
            [] h = "[^/]*" ->
                 \E k \in 0..Len(s) :
                    /\ \A i \in 1..k : s[i] # "/"
                    /\ RegexTest(t, SubstringFrom(s, k))
            [] h = "[^/]" ->
                 s # <<>> /\ s[1] # "/" /\ RegexTest(t, Tail(s))
            [] OTHER ->
                 s # <<>> /\ s[1] = h /\ RegexTest(t, Tail(s))

MatchAll == <<"*", "*", "/", "*">>
DoubleStar == <<"*", "*">>

MatchesPattern(filePath, pattern) ==
  IF pattern = MatchAll \/ pattern = DoubleStar
  THEN TRUE
  ELSE RegexTest(GlobToRegex(pattern), filePath)

(***************************************************************************)
(* Paths (node path.join / path.dirname on project-relative paths)         *)
(***************************************************************************)
\* path.join collapses repeated separators.
RECURSIVE CollapseSlashes(_)
CollapseSlashes(p) ==
  IF Len(p) < 2 THEN p
  ELSE IF p[1] = "/" /\ p[2] = "/" THEN CollapseSlashes(Tail(p))
  ELSE <<p[1]>> \o CollapseSlashes(Tail(p))

\* path.join(a, b); an empty part contributes nothing.
Join(a, b) ==
  CollapseSlashes(IF a = <<>> THEN b
                  ELSE IF b = <<>> THEN a
                  ELSE a \o <<"/">> \o b)

StripSlash(p) ==
  IF p # <<>> /\ p[Len(p)] = "/" THEN SubSeq(p, 1, Len(p) - 1) ELSE p

\* The directories a path lies in, nearest last: every prefix ending before
\* a separator.
Ancestors(p) == {SubSeq(p, 1, i - 1) : i \in {j \in 2..Len(p) : p[j] = "/"}}

Dirname(p) ==
  IF Ancestors(p) = {} THEN <<>>
  ELSE CHOOSE d \in Ancestors(p) : \A e \in Ancestors(p) : Len(e) <= Len(d)

\* p is d itself or lies below the directory d.
IsUnder(p, d) ==
  LET d0 == StripSlash(d)
  IN \/ p = d0
     \/ Len(p) > Len(d0) /\ SubSeq(p, 1, Len(d0)) = d0 /\ p[Len(d0) + 1] = "/"

(***************************************************************************)
(* The project tree (fs-extra on the destination root)                     *)
(***************************************************************************)
\* A tree is [files |-> path -> content, dirs |-> set of directory paths].
PathExists(t, p) ==
  StripSlash(p) \in DOMAIN t.files \/ StripSlash(p) \in t.dirs

EnsureDir(t, d) ==
  LET d0 == StripSlash(d)
  IN IF d0 = <<>> THEN t
     ELSE [t EXCEPT !.dirs = @ \cup {d0} \cup (Ancestors(d0) \ {<<>>})]

WriteFile(t, p, c) ==
  [t EXCEPT !.files = [q \in DOMAIN t.files \cup {p} |->
                         IF q = p THEN c ELSE t.files[q]]]

\* fs.remove: a file, or a directory with everything below it.
Remove(t, p) ==
  [files |-> [q \in {r \in DOMAIN t.files : ~IsUnder(r, p)} |-> t.files[q]],
   dirs |-> {d \in t.dirs : ~IsUnder(d, p)}]

\* fs.rmdir, guarded by readdir(...).length === 0 at the call site.
IsEmptyDir(t, d) ==
  /\ StripSlash(d) \in t.dirs
  /\ \A q \in DOMAIN t.files \cup t.dirs : q = StripSlash(d) \/ ~IsUnder(q, d)

(***************************************************************************)
(* glob(pattern, {cwd, nodir, ignore}) of the glob library                 *)
(***************************************************************************)
RECURSIVE Segments(_)
Segments(p) ==
  IF p = <<>> THEN <<>>
  ELSE IF \E i \in 1..Len(p) : p[i] = "/"
       THEN LET i == CHOOSE j \in 1..Len(p) :
                       p[j] = "/" /\ \A m \in 1..(j - 1) : p[m] # "/"
            IN (IF i = 1 THEN <<>> ELSE <<SubSeq(p, 1, i - 1)>>)
               \o Segments(SubSeq(p, i + 1, Len(p)))
       ELSE <<p>>

\* A "**" segment stands for any number of directories, none included.
RECURSIVE GlobSegments(_, _)
GlobSegments(ps, ss) ==
  IF ps = <<>> THEN ss = <<>>
  ELSE IF Head(ps) = DoubleStar
       THEN \E k \in 0..Len(ss) : GlobSegments(Tail(ps), SubSeq(ss, k + 1, Len(ss)))
       ELSE /\ ss # <<>>
            /\ RegexTest(GlobToRegex(Head(ps)), Head(ss))
            /\ GlobSegments(Tail(ps), Tail(ss))

GlobMatch(pattern, rel) == GlobSegments(Segments(pattern), Segments(rel))

\* The files of the package directory below cwd (relative to cwd) that match
\* the pattern and none of the ignore patterns.
Glob(src, cwd, pattern, ignore) ==
  LET below == {p \in DOMAIN src : p # StripSlash(cwd) /\ IsUnder(p, cwd)}
      rels == {SubstringFrom(p, Len(StripSlash(cwd)) + 1) : p \in below}
  IN {r \in rels :
        /\ GlobMatch(pattern, r)
        /\ \A i \in 1..Len(ignore) : ~GlobMatch(ignore[i], r)}

\* The order in which glob lists the files it has found.
RECURSIVE Listing(_)
Listing(S) ==
  IF S = {} THEN <<>>
  ELSE LET x == CHOOSE y \in S : TRUE IN <<x>> \o Listing(S \ {x})

SourceExists(src, cwd) ==
  \E p \in DOMAIN src : IsUnder(p, cwd) /\ p # StripSlash(cwd)

(***************************************************************************)
(* FileManager: variant filter, destination templates                      *)
(***************************************************************************)
SomeMatch(patterns, f) ==
  \E i \in 1..Len(patterns) : MatchesPattern(f, patterns[i])

\* A filter that forgets the exclude patterns (sensitivity check of C16).
FilterFilesByInclude(fileList, variantConfig, basePath) ==
  LET Keep(f) == SomeMatch(variantConfig.include, Join(basePath, f))
  IN SelectSeq(fileList, Keep)

FilterFilesByVariant(fileList, variantConfig, basePath) ==
  LET Keep(f) ==
        /\ SomeMatch(variantConfig.include, Join(basePath, f))
        /\ ~SomeMatch(variantConfig.exclude, Join(basePath, f))
  IN SelectSeq(fileList, Keep)

ResolveDestPath(destPattern, m) ==
  ReplaceFirst(
    ReplaceFirst(
      ReplaceFirst(destPattern, <<"{name}">>, m.name),
      <<"{version}">>, m.version),
    <<"{author}">>, m.author)

\* ManifestParser.resolveVariant on the ordered variants of a manifest.
DefaultVariant ==
  [name |-> "default", description |-> "Default installation",
   include |-> <<MatchAll>>, exclude |-> <<>>]

Declares(manifest, variantName) ==
  \E i \in 1..Len(manifest.variants) : manifest.variants[i].name = variantName

Declared(manifest, variantName) ==
  manifest.variants[CHOOSE i \in 1..Len(manifest.variants) :
                      manifest.variants[i].name = variantName]

\* A resolver that answers an undeclared name with the synthetic default
\* (sensitivity check of C14).
ResolveVariantOrDefault(manifest, variantName) ==
  IF Len(manifest.variants) = 0 THEN DefaultVariant
  ELSE IF Declares(manifest, variantName) THEN Declared(manifest, variantName)
  ELSE DefaultVariant

ResolveVariant(manifest, variantName) ==
  IF Len(manifest.variants) = 0 THEN DefaultVariant
  ELSE IF Declares(manifest, variantName) THEN Declared(manifest, variantName)
  ELSE manifest.variants[1]

(***************************************************************************)
(* FileManager: the aggregated document .claude/CLAUDE.md                  *)
(***************************************************************************)
ClaudeMdPath == <<".claude", "/", "CLAUDE.md">>

\* The scaffold of createBaseClaude: its text, which ends in an empty line.
BaseContent == <<"# CLAUDE.md - Project Configuration ...", "\n", "\n">>

StartMarker(packageName) == <<"# Package: ">> \o packageName
EndMarker(packageName) == <<"# End Package: ">> \o packageName

CreateBaseClaude(t) ==
  WriteFile(EnsureDir(t, Dirname(ClaudeMdPath)), ClaudeMdPath, BaseContent)

ContentToAppend(packageName, packageContent) ==
  <<"\n">> \o StartMarker(packageName) \o <<"\n">> \o packageContent
  \o <<"\n">> \o EndMarker(packageName) \o <<"\n">>

\* A merge that does not ask the variant whether the item's file is part of
\* it (sensitivity check of C18).
AppendToClaudeMdAlways(t, src, item, variantConfig, packageName) ==
  LET sourceFiles == Listing(Glob(src, item.source, item.pattern, <<>>))
      t1 == IF PathExists(t, ClaudeMdPath) THEN t ELSE CreateBaseClaude(t)
  IN IF Len(sourceFiles) = 0 THEN t
     ELSE WriteFile(t1, ClaudeMdPath,
                    t1.files[ClaudeMdPath]
                    \o ContentToAppend(packageName,
                                       src[StripSlash(Join(item.source, sourceFiles[1]))]))

\* A merge that appends the new block without cutting the package's old
\* block out of the document (sensitivity check of C26).
AppendToClaudeMdKeepingOld(t, src, item, variantConfig, packageName) ==
  LET listed == FilterFilesByVariant(<<item.pattern>>, variantConfig, item.source)
      sourceFiles == Listing(Glob(src, item.source, item.pattern, <<>>))
      t1 == IF PathExists(t, ClaudeMdPath) THEN t ELSE CreateBaseClaude(t)
  IN IF Len(listed) = 0 \/ Len(sourceFiles) = 0 THEN t
     ELSE WriteFile(t1, ClaudeMdPath,
                    t1.files[ClaudeMdPath]
                    \o ContentToAppend(packageName,
                                       src[StripSlash(Join(item.source, sourceFiles[1]))]))

AppendToClaudeMd(t, src, item, variantConfig, packageName) ==
  LET listed == FilterFilesByVariant(<<item.pattern>>, variantConfig, item.source)
      sourceFiles == Listing(Glob(src, item.source, item.pattern, <<>>))
      sourceFile == StripSlash(Join(item.source, sourceFiles[1]))
      t1 == IF PathExists(t, ClaudeMdPath) THEN t ELSE CreateBaseClaude(t)
      existingContent == t1.files[ClaudeMdPath]
      startIndex == IndexOf(existingContent, StartMarker(packageName))
      endIndex == IndexOf(existingContent, EndMarker(packageName))
      kept == IF /\ Includes(existingContent, StartMarker(packageName))
                 /\ startIndex # -1 /\ endIndex # -1
              THEN Substring(existingContent, 0, startIndex)
                   \o SubstringFrom(existingContent,
                                    endIndex + Len(EndMarker(packageName)))
              ELSE existingContent
  IN IF Len(listed) = 0 THEN t
     ELSE IF Len(sourceFiles) = 0 THEN t
     ELSE WriteFile(t1, ClaudeMdPath,
                    kept \o ContentToAppend(packageName, src[sourceFile]))

RemoveFromClaudeMd(t, packageName) ==
  IF ~PathExists(t, ClaudeMdPath) THEN t
  ELSE LET content == t.files[ClaudeMdPath]
           startIndex == IndexOf(content, StartMarker(packageName))
           endIndex == IndexOf(content, EndMarker(packageName))
           actualStart == IF startIndex > 0 /\ content[startIndex] = "\n"
                          THEN startIndex - 1 ELSE startIndex
       IN IF startIndex # -1 /\ endIndex # -1
          THEN WriteFile(t, ClaudeMdPath,
                         Substring(content, 0, actualStart)
                         \o SubstringFrom(content,
                                          endIndex + Len(EndMarker(packageName))))
          ELSE t

(***************************************************************************)
(* FileManager: install                                                    *)
(***************************************************************************)
RECURSIVE CopyFiles(_, _, _, _, _)
CopyFiles(t, src, sourcePath, destPath, included) ==
  IF included = <<>> THEN t
  ELSE LET file == Head(included)
           sourceFile == Join(sourcePath, file)
           destFile == Join(destPath, file)
       IN CopyFiles(WriteFile(EnsureDir(t, Dirname(destFile)), destFile, src[sourceFile]),
                    src, sourcePath, destPath, Tail(included))

\* The destination of an item as installStructureItem resolves it: it hands
\* resolveDestPath an object that carries the package name only.
InstallDest(item, packageName) ==
  Join(<<>>, ResolveDestPath(item.dest,
                             [name |-> packageName, version |-> <<>>, author |-> <<>>]))

\* An installer that copies what glob finds without asking the variant
\* (sensitivity check of C17).
InstallStructureItemUnfiltered(t, src, item, variantConfig, packageName) ==
  IF ~SourceExists(src, item.source) THEN t
  ELSE CopyFiles(t, src, item.source, InstallDest(item, packageName),
                 Listing(Glob(src, item.source, item.pattern, item.exclude)))

InstallStructureItem(t, src, item, variantConfig, packageName) ==
  LET destPath == InstallDest(item, packageName)
      found == Listing(Glob(src, item.source, item.pattern, item.exclude))
      includedFiles == FilterFilesByVariant(found, variantConfig, item.source)
  IN IF ~SourceExists(src, item.source) THEN t
     ELSE CopyFiles(t, src, item.source, destPath, includedFiles)

RECURSIVE InstallItems(_, _, _, _, _, _)
InstallItems(t, src, type, items, variantConfig, packageName) ==
  IF items = <<>> THEN t
  ELSE InstallItems(
         IF type = "claude_config"
         THEN AppendToClaudeMd(t, src, Head(items), variantConfig, packageName)
         ELSE InstallStructureItem(t, src, Head(items), variantConfig, packageName),
         src, type, Tail(items), variantConfig, packageName)

\* An installer that gives up at the first structure type that has an item
\* whose source is missing (sensitivity check of C24).
RECURSIVE InstallEntriesStopAtMissing(_, _, _, _, _)
InstallEntriesStopAtMissing(t, src, structure, variantConfig, packageName) ==
  IF structure = <<>> THEN t
  ELSE IF \E i \in 1..Len(Head(structure).items) :
            ~SourceExists(src, Head(structure).items[i].source)
  THEN t
  ELSE InstallEntriesStopAtMissing(
         InstallItems(t, src, Head(structure).type, Head(structure).items,
                      variantConfig, packageName),
         src, Tail(structure), variantConfig, packageName)

RECURSIVE InstallEntries(_, _, _, _, _)
InstallEntries(t, src, structure, variantConfig, packageName) ==
  IF structure = <<>> THEN t
  ELSE InstallEntries(
         InstallItems(t, src, Head(structure).type, Head(structure).items,
                      variantConfig, packageName),
         src, Tail(structure), variantConfig, packageName)

\* The variant installFiles installs: the declared one, else everything.
InstallVariant(manifest, variant) ==
  IF Declares(manifest, variant) THEN Declared(manifest, variant)
  ELSE [name |-> variant, description |-> "Default installation - all files",
        include |-> <<MatchAll>>, exclude |-> <<>>]

InstallFiles(t, src, manifest, variant) ==
  InstallEntries(t, src, manifest.structure, InstallVariant(manifest, variant),
                 manifest.name)

\* The same run as the sequence of its writes, in the order the loops of
\* installFiles and installStructureItem perform them: one fs.copy per
\* selected file, one appendToClaudeMd per claude_config item.
ItemSteps(src, type, item, variantConfig) ==
  IF type = "claude_config" THEN << [kind |-> "append", item |-> item, file |-> <<>>] >>
  ELSE IF ~SourceExists(src, item.source) THEN <<>>
  ELSE LET includedFiles ==
             FilterFilesByVariant(
               Listing(Glob(src, item.source, item.pattern, item.exclude)),
               variantConfig, item.source)
       IN [i \in 1..Len(includedFiles) |->
             [kind |-> "copy", item |-> item, file |-> includedFiles[i]]]

RECURSIVE ItemsSteps(_, _, _, _)
ItemsSteps(src, type, items, variantConfig) ==
  IF items = <<>> THEN <<>>
  ELSE ItemSteps(src, type, Head(items), variantConfig)
       \o ItemsSteps(src, type, Tail(items), variantConfig)

RECURSIVE InstallSteps(_, _, _)
InstallSteps(src, structure, variantConfig) ==
  IF structure = <<>> THEN <<>>
  ELSE ItemsSteps(src, Head(structure).type, Head(structure).items, variantConfig)
       \o InstallSteps(src, Tail(structure), variantConfig)

StepDest(step, packageName) == Join(InstallDest(step.item, packageName), step.file)

ApplyStep(t, src, step, variantConfig, packageName) ==
  IF step.kind = "append"
  THEN AppendToClaudeMd(t, src, step.item, variantConfig, packageName)
  ELSE CopyFiles(t, src, step.item.source, InstallDest(step.item, packageName),
                 <<step.file>>)

RECURSIVE RunSteps(_, _, _, _, _)
RunSteps(t, src, todo, variantConfig, packageName) ==
  IF todo = <<>> THEN t
  ELSE RunSteps(ApplyStep(t, src, Head(todo), variantConfig, packageName),
                src, Tail(todo), variantConfig, packageName)

Copies(todo) == {i \in 1..Len(todo) : todo[i].kind = "copy"}

\* The position of the k-th fs.copy among the writes.
CopyIndex(todo, k) ==
  CHOOSE i \in Copies(todo) : Cardinality({j \in Copies(todo) : j <= i}) = k

\* An install that undoes its writes when a copy throws (sensitivity check
\* of C25 and C27).
InstallFilesRollingBack(t, src, manifest, variant, k) == t

\* installFiles when its k-th fs.copy throws: the writes before it are
\* done, the directory of the failing file is ensured, the rest is not run.
InstallFilesFailingAt(t, src, manifest, variant, k) ==
  LET variantConfig == InstallVariant(manifest, variant)
      todo == InstallSteps(src, manifest.structure, variantConfig)
      at == CopyIndex(todo, k)
  IN EnsureDir(RunSteps(t, src, SubSeq(todo, 1, at - 1), variantConfig, manifest.name),
               Dirname(StepDest(todo[at], manifest.name)))

\* The number of fs.copy calls of a run.
CopyCount(src, manifest, variant) ==
  Cardinality(Copies(InstallSteps(src, manifest.structure,
                                  InstallVariant(manifest, variant))))

(***************************************************************************)
(* FileManager: uninstall                                                  *)
(***************************************************************************)
\* Every structure item of the manifest, in Object.entries order.
RECURSIVE AllItems(_)
AllItems(structure) ==
  IF structure = <<>> THEN <<>>
  ELSE Head(structure).items \o AllItems(Tail(structure))

UninstallDest(item, manifest) == Join(<<>>, ResolveDestPath(item.dest, manifest))

\* A loop that counts every item, present or not (sensitivity check of C19).
RECURSIVE UninstallItemsCountAll(_, _, _)
UninstallItemsCountAll(acc, items, manifest) ==
  IF items = <<>> THEN acc
  ELSE UninstallItemsCountAll(
         [tree |-> Remove(acc.tree, UninstallDest(Head(items), manifest)),
          removedCount |-> acc.removedCount + 1],
         Tail(items), manifest)

\* The tree and removedCount after the loop over the items.
RECURSIVE UninstallItems(_, _, _)
UninstallItems(acc, items, manifest) ==
  IF items = <<>> THEN acc
  ELSE LET fullDestPath == UninstallDest(Head(items), manifest)
       IN UninstallItems(
            IF PathExists(acc.tree, fullDestPath)
            THEN [tree |-> Remove(acc.tree, fullDestPath),
                  removedCount |-> acc.removedCount + 1]
            ELSE acc,
            Tail(items), manifest)

UninstallFiles(t, manifest) ==
  UninstallItems([tree |-> t, removedCount |-> 0], AllItems(manifest.structure), manifest)

RECURSIVE RemoveListed(_, _)
RemoveListed(t, paths) ==
  IF paths = <<>> THEN t
  ELSE RemoveListed(IF PathExists(t, Head(paths)) THEN Remove(t, Head(paths)) ELSE t,
                    Tail(paths))

RECURSIVE RemoveEmptyDirectories(_, _)
RemoveEmptyDirectories(t, directories) ==
  IF directories = <<>> THEN t
  ELSE RemoveEmptyDirectories(
         IF IsEmptyDir(t, Head(directories))
         THEN [t EXCEPT !.dirs = @ \ {StripSlash(Head(directories))}]
         ELSE t,
         Tail(directories))

\* packageInfo.hasFiles tells whether the record carries a `files` list.
RemovePackageFiles(t, packageName, packageInfo) ==
  LET t1 == RemoveFromClaudeMd(t, packageName)
  IN IF ~packageInfo.hasFiles THEN t1
     ELSE RemoveEmptyDirectories(RemoveListed(t1, packageInfo.files),
                                 packageInfo.directories)

(***************************************************************************)
(* Packages: normalized, valid manifests with their source directories     *)
(***************************************************************************)
Item(source, dest, pattern, exclude) ==
  [source |-> source, dest |-> dest, pattern |-> pattern, exclude |-> exclude]

Variant(name, description, include, exclude) ==
  [name |-> name, description |-> description, include |-> include, exclude |-> exclude]

\* "f": commands under {name}; its document block kept in m/f.md.
PkgF ==
  [manifest |->
     [name |-> <<"f">>, version |-> <<"1.0.0">>, author |-> <<"ann">>,
      structure |-> <<
        [type |-> "commands",
         items |-> <<Item(<<"c", "/">>, <<".claude", "/", "c", "/", "{name}", "/">>,
                          MatchAll, <<>>)>>],
        [type |-> "claude_config",
         items |-> <<Item(<<"m", "/">>, <<".claude", "/", "m", "/", "{name}", "/">>,
                          <<"f", ".md">>, <<>>)>>] >>,
      variants |-> <<
        Variant("minimal", "Core only", << <<"c", "/", "k", "/", "*">> >>, <<>>),
        Variant("full", "Everything", <<MatchAll>>, <<>>),
        Variant("lean", "Without the rules", <<MatchAll>>, << <<"m", "/", "*">> >>) >>],
   source |->
     (<<"c", "/", "k", "/", "b">> :> <<"basic f">>)
     @@ (<<"c", "/", "x", "/", "a">> :> <<"advanced f">>)
     @@ (<<"m", "/", "f", ".md">> :> <<"rules of f">>)]

\* "fb": its name extends "f"; its document block comes first; versioned
\* destination; excludes experimental.
PkgFB ==
  [manifest |->
     [name |-> <<"f", "b">>, version |-> <<"2.0.0">>, author |-> <<"bob">>,
      structure |-> <<
        [type |-> "claude_config",
         items |-> <<Item(<<"m", "/">>, <<".claude", "/", "m", "/", "{name}", "/">>,
                          <<"f", "b", ".md">>, <<>>)>>],
        [type |-> "commands",
         items |-> <<Item(<<"c", "/">>,
                          <<".claude", "/", "c", "/", "{name}", "/", "{version}", "/">>,
                          MatchAll, <<>>)>>] >>,
      variants |-> <<
        Variant("full", "Everything but experimental", <<MatchAll>>,
                << <<"c", "/", "x", "/", "*">> >>) >>],
   source |->
     (<<"c", "/", "k", "/", "b">> :> <<"basic fb">>)
     @@ (<<"c", "/", "x", "/", "a">> :> <<"advanced fb">>)
     @@ (<<"m", "/", "f", "b", ".md">> :> <<"rules of fb">>)]

\* "g": laid out as templates/command-template.md documents it, with the
\* claude_config item sourced from and destined to .claude/; its commands
\* directory, declared between scripts and claude_config, is missing from
\* the package.
PkgG ==
  [manifest |->
     [name |-> <<"g">>, version |-> <<"1.0.0">>, author |-> <<"Unknown">>,
      structure |-> <<
        [type |-> "scripts",
         items |-> <<Item(<<"s", "/">>, <<".claude", "/", "s", "/", "{name}", "/">>,
                          <<"*">>, << <<"o">> >>)>>],
        [type |-> "commands",
         items |-> <<Item(<<"c", "/">>, <<".claude", "/", "c", "/", "{name}", "/">>,
                          MatchAll, <<>>)>>],
        [type |-> "claude_config",
         items |-> <<Item(<<".claude", "/">>, <<".claude", "/">>,
                          <<"g", ".md">>, <<>>)>>] >>,
      variants |-> <<
        Variant("default", "Default installation", <<MatchAll>>, <<>>) >>],
   source |->
     (<<"s", "/", "t">> :> <<"script g">>)
     @@ (<<"s", "/", "o">> :> <<"old script g">>)
     @@ (<<"s", "/", "d", "/", "e">> :> <<"nested script g">>)
     @@ (<<".claude", "/", "g", ".md">> :> <<"rules of g">>)]

Packages == <<PkgF, PkgFB, PkgG>>
PackageIds == 1..Len(Packages)

\* Variant names a caller may ask for; "zz" is declared by no package.
VariantArgs == {"minimal", "full", "lean", "default", "zz"}

\* The record PackageManager.updateConfig keeps for an installed package
\* (version, manifest; no file list), and one that lists files and directories.
RecordedInfo(id) ==
  [hasFiles |-> FALSE, files |-> <<>>, directories |-> <<>>,
   version |-> Packages[id].manifest.version, manifest |-> Packages[id].manifest]

ListedInfo(id) ==
  LET m == Packages[id].manifest
      installed == InstallFiles([files |-> [f \in {} |-> <<>>], dirs |-> {}],
                                Packages[id].source, m, "zz")
  IN [hasFiles |-> TRUE,
      files |-> Listing(DOMAIN installed.files \ {ClaudeMdPath}),
      directories |-> Listing({d \in installed.dirs : d # <<".claude">>}),
      version |-> m.version, manifest |-> m]

PackageInfos(id) == {RecordedInfo(id), ListedInfo(id)}

(***************************************************************************)
(* Specification Spec: the installer on one project tree                   *)
(***************************************************************************)
Tree == [files |-> files, dirs |-> dirs]

\* A fresh project, or one whose .claude/CLAUDE.md the user already wrote.
UserDocument == <<"# My project", "\n">>
InitialTrees ==
  { [files |-> [f \in {} |-> <<>>], dirs |-> {}],
    [files |-> (ClaudeMdPath :> UserDocument), dirs |-> {<<".claude">>}] }

Summary(l) == <<l.op, l.pkg, l.variant>>

Done(op, id, variant, info, t, ret) ==
  /\ files' = t.files
  /\ dirs' = t.dirs
  /\ last' = [op |-> op, pkg |-> id, variant |-> variant, hasFiles |-> info,
              preFiles |-> files, preDirs |-> dirs, prev |-> Summary(last),
              ret |-> ret]
  /\ steps' = steps + 1
  /\ UNCHANGED <<mPath, mPattern, mResult, raw, norm, renorm, stage, callVars, packVars, pmVars>>

\* installFiles returns, or throws what its k-th fs.copy throws.
DoInstallFiles ==
  \E id \in PackageIds, variant \in VariantArgs :
    \E k \in 0..CopyCount(Packages[id].source, Packages[id].manifest, variant) :
      /\ steps < MaxSteps
      /\ IF k = 0
         THEN Done("installFiles", id, variant, FALSE,
                   InstallFiles(Tree, Packages[id].source, Packages[id].manifest,
                                variant), 0)
         ELSE Done("installFilesThrew", id, variant, FALSE,
                   InstallFilesFailingAt(Tree, Packages[id].source,
                                         Packages[id].manifest, variant, k), k)

DoUninstallFiles ==
  \E id \in PackageIds :
    /\ steps < MaxSteps
    /\ LET r == UninstallFiles(Tree, Packages[id].manifest)
       IN Done("uninstallFiles", id, "", FALSE, r.tree, r.removedCount)

DoRemovePackageFiles ==
  \E id \in PackageIds :
    \E info \in PackageInfos(id) :
      /\ steps < MaxSteps
      /\ Done("removePackageFiles", id, "", info.hasFiles,
              RemovePackageFiles(Tree, Packages[id].manifest.name, info), 0)

DoRemoveFromClaudeMd ==
  \E id \in PackageIds :
    /\ steps < MaxSteps
    /\ Done("removeFromClaudeMd", id, "", FALSE,
            RemoveFromClaudeMd(Tree, Packages[id].manifest.name), 0)

(***************************************************************************)
(* Manifest documents: the loosely typed values YAML.parse yields          *)
(***************************************************************************)
\* A value is a record tagged by k: "undef", "null", "bool", "str" (v: the
\* text), "list" (v: the elements), "obj" (v: the <<key, value>> pairs in
\* insertion order) or "error" (v: the error thrown).
Undef == [k |-> "undef"]
Null == [k |-> "null"]
Bool(b) == [k |-> "bool", v |-> b]
Str(s) == [k |-> "str", v |-> s]
List(xs) == [k |-> "list", v |-> xs]
Obj(pairs) == [k |-> "obj", v |-> pairs]
ValidationError == [k |-> "error", v |-> "ValidationError"]

IsErr(x) == x.k = "error"
IsArray(x) == x.k = "list"

\* o[key]
Get(o, key) ==
  IF o.k = "obj" /\ \E i \in 1..Len(o.v) : o.v[i][1] = key
  THEN o.v[CHOOSE i \in 1..Len(o.v) : o.v[i][1] = key][2]
  ELSE Undef

\* JavaScript truthiness, and a || b.
Truthy(x) ==
  CASE x.k \in {"undef", "null"} -> FALSE
    [] x.k = "str" -> x.v # <<>>
    [] x.k = "bool" -> x.v
    [] OTHER -> TRUE

Or(a, b) == IF Truthy(a) THEN a ELSE b

EntryCount(o) == IF o.k = "obj" THEN Len(o.v) ELSE 0

AnyErr(xs) == \E i \in 1..Len(xs) : IsErr(xs[i])

(***************************************************************************)
(* semver.valid, semver.validRange and the identifier patterns             *)
(***************************************************************************)
SemverValid(x) == x.k = "str" /\ x.v \in {<<"1.0.0">>, <<"1.0.0-beta.1">>, <<"2.0.0">>}
SemverValidRange(x) == x.k = "str" /\ x.v \in {<<"^1.0.0">>, <<">=2.0.0">>, <<"1.0.0">>}

LowerCase == {"a", "b", "c", "d", "e", "f", "g", "h", "i", "j", "k", "l", "m",
              "n", "o", "p", "q", "r", "s", "t", "u", "v", "w", "x", "y", "z"}
Digits == {"0", "1", "2", "3", "4", "5", "6", "7", "8", "9"}

\* /^[a-z0-9-_]+$/
PackageNameOk(x) ==
  x.k = "str" /\ x.v # <<>>
  /\ \A i \in 1..Len(x.v) : x.v[i] \in LowerCase \cup Digits \cup {"-", "_"}

\* /^[a-z][a-z0-9-]*$/
VariantNameOk(n) ==
  n # <<>> /\ n[1] \in LowerCase
  /\ \A i \in 1..Len(n) : n[i] \in LowerCase \cup Digits \cup {"-"}

(***************************************************************************)
(* ManifestParser.normalize                                                *)
(***************************************************************************)
NormalizeStructureItem(item) ==
  IF item.k = "str"
  THEN Obj(<< <<"source", item>>, <<"dest", item>> >>)
  ELSE IF item.k \in {"obj", "list"}
  THEN Obj(<< <<"source", Or(Get(item, "source"), Get(item, "from"))>>,
              <<"dest", Or(Or(Get(item, "dest"), Get(item, "to")),
                           Get(item, "destination"))>>,
              <<"pattern", Or(Get(item, "pattern"), Str(<<"**/*">>))>>,
              <<"exclude", IF IsArray(Get(item, "exclude"))
                           THEN Get(item, "exclude") ELSE List(<<>>)>> >>)
  ELSE ValidationError

NormalizeStructure(structure) ==
  LET Entry(e) ==
        LET items == IF IsArray(e[2])
                     THEN [i \in 1..Len(e[2].v) |-> NormalizeStructureItem(e[2].v[i])]
                     ELSE <<NormalizeStructureItem(e[2])>>
        IN IF AnyErr(items) THEN <<e[1], ValidationError>> ELSE <<e[1], List(items)>>
      entries == [i \in 1..EntryCount(structure) |-> Entry(structure.v[i])]
  IN IF \E i \in 1..Len(entries) : IsErr(entries[i][2]) THEN ValidationError
     ELSE Obj(entries)

\* A normalization that keeps an empty variants mapping empty (sensitivity
\* check of C20).
NormalizeVariantsAsGiven(variants) ==
  IF EntryCount(variants) = 0 THEN Obj(<<>>)
  ELSE IF \E i \in 1..Len(variants.v) : ~VariantNameOk(variants.v[i][1])
  THEN ValidationError
  ELSE variants

NormalizeVariants(variants) ==
  IF EntryCount(variants) = 0
  THEN Obj(<< <<<<"d", "e", "f", "a", "u", "l", "t">>,
                Obj(<< <<"description", Str(<<"Default installation">>)>>,
                       <<"include", List(<<Str(<<"**/*">>)>>)>> >>)>> >>)
  ELSE LET Entry(e) ==
             <<e[1],
               Obj(<< <<"description",
                        Or(Get(e[2], "description"), Str(e[1] \o <<" variant">>))>>,
                      <<"include", IF IsArray(Get(e[2], "include"))
                                   THEN Get(e[2], "include")
                                   ELSE List(<<Str(<<"**/*">>)>>)>>,
                      <<"exclude", IF IsArray(Get(e[2], "exclude"))
                                   THEN Get(e[2], "exclude") ELSE List(<<>>)>> >>)>>
       IN IF \E i \in 1..Len(variants.v) : ~VariantNameOk(variants.v[i][1])
          THEN ValidationError
          ELSE Obj([i \in 1..Len(variants.v) |-> Entry(variants.v[i])])

NormalizeSystemDep(dep) ==
  IF dep.k = "str"
  THEN Obj(<< <<"name", dep>>, <<"required", Bool(TRUE)>>,
              <<"version", Null>>, <<"install", Null>> >>)
  ELSE IF dep.k \in {"obj", "list"}
  THEN Obj(<< <<"name", Get(dep, "name")>>,
              <<"required", Bool(Get(dep, "required") # Bool(FALSE))>>,
              <<"version", Or(Get(dep, "version"), Null)>>,
              <<"install", Or(Get(dep, "install"), Null)>> >>)
  ELSE ValidationError

NormalizeDependencies(dependencies) ==
  LET sys == Get(dependencies, "system")
      prism == Get(dependencies, "prism")
      system == IF IsArray(sys)
                THEN [i \in 1..Len(sys.v) |-> NormalizeSystemDep(sys.v[i])]
                ELSE <<NormalizeSystemDep(sys)>>
  IN IF Truthy(sys) /\ AnyErr(system) THEN ValidationError
     ELSE IF Truthy(prism)
             /\ \E i \in 1..EntryCount(prism) : ~SemverValidRange(prism.v[i][2])
     THEN ValidationError
     ELSE Obj((IF Truthy(sys) THEN << <<"system", List(system)>> >> ELSE <<>>)
              \o (IF Truthy(prism) THEN << <<"prism", prism>> >> ELSE <<>>))

ValidHooks == {"preInstall", "postInstall", "preUninstall", "postUninstall",
               "preUpdate", "postUpdate"}

NormalizeHooks(hooks) ==
  IF \E i \in 1..EntryCount(hooks) :
       hooks.v[i][1] \notin ValidHooks \/ hooks.v[i][2].k # "str"
  THEN ValidationError
  ELSE Obj([i \in 1..EntryCount(hooks) |-> hooks.v[i]])

DefaultIgnore == List(<<Str(<<"node_modules">>), Str(<<".git">>), Str(<<".DS_Store">>)>>)

Normalize(manifest) ==
  LET structure == NormalizeStructure(Or(Get(manifest, "structure"), Obj(<<>>)))
      variants == NormalizeVariants(Or(Get(manifest, "variants"), Obj(<<>>)))
      dependencies == NormalizeDependencies(Or(Get(manifest, "dependencies"), Obj(<<>>)))
      hooks == NormalizeHooks(Or(Get(manifest, "hooks"), Obj(<<>>)))
  IN IF manifest.k # "obj" THEN ValidationError
     ELSE IF \E field \in {"name", "version", "description"} :
                ~Truthy(Get(manifest, field))
     THEN ValidationError
     ELSE IF ~SemverValid(Get(manifest, "version")) THEN ValidationError
     ELSE IF ~PackageNameOk(Get(manifest, "name")) THEN ValidationError
     ELSE IF IsErr(structure) \/ IsErr(variants) \/ IsErr(dependencies) \/ IsErr(hooks)
     THEN ValidationError
     ELSE Obj(<< <<"name", Get(manifest, "name")>>,
                 <<"version", Get(manifest, "version")>>,
                 <<"description", Get(manifest, "description")>>,
                 <<"author", Or(Get(manifest, "author"), Str(<<"Unknown">>))>>,
                 <<"license", Or(Get(manifest, "license"), Str(<<"MIT">>))>>,
                 <<"repository", Or(Get(manifest, "repository"), Null)>>,
                 <<"homepage", Or(Get(manifest, "homepage"), Null)>>,
                 <<"keywords", IF IsArray(Get(manifest, "keywords"))
                               THEN Get(manifest, "keywords") ELSE List(<<>>)>>,
                 <<"claudeCode", Or(Get(manifest, "claudeCode"), Obj(<<>>))>>,
                 <<"structure", structure>>,
                 <<"variants", variants>>,
                 <<"dependencies", dependencies>>,
                 <<"hooks", hooks>>,
                 <<"ignore", IF IsArray(Get(manifest, "ignore"))
                             THEN Get(manifest, "ignore") ELSE DefaultIgnore>> >>)

(***************************************************************************)
(* ManifestParser.validate                                                 *)
(***************************************************************************)
ValidTypes == {"commands", "scripts", "rules", "data", "templates", "agents",
               "documentation", "claude_config"}

\* Each Validate* is TRUE when the method returns and FALSE when it throws
\* ValidationError.
\* A validation that checks the type tags and not the items (sensitivity
\* check of C21).
ValidateStructureTypes(manifest) ==
  LET structure == Get(manifest, "structure")
  IN /\ Truthy(structure) /\ EntryCount(structure) # 0
     /\ \A i \in 1..EntryCount(structure) : structure.v[i][1] \in ValidTypes

ValidateStructure(manifest) ==
  LET structure == Get(manifest, "structure")
  IN /\ Truthy(structure) /\ EntryCount(structure) # 0
     /\ \A i \in 1..EntryCount(structure) :
          /\ structure.v[i][1] \in ValidTypes
          /\ \A j \in 1..Len(structure.v[i][2].v) :
               /\ Truthy(Get(structure.v[i][2].v[j], "source"))
               /\ Truthy(Get(structure.v[i][2].v[j], "dest"))

ValidateVariants(variants) ==
  \/ ~Truthy(variants) \/ EntryCount(variants) = 0
  \/ \A i \in 1..EntryCount(variants) :
       /\ Truthy(Get(variants.v[i][2], "description"))
       /\ IsArray(Get(variants.v[i][2], "include"))
       /\ Len(Get(variants.v[i][2], "include").v) # 0

ValidateDependencies(deps) ==
  \/ ~Truthy(deps)
  \/ /\ Truthy(Get(deps, "system")) =>
          \A i \in 1..Len(Get(deps, "system").v) :
            LET dep == Get(deps, "system").v[i]
            IN /\ Truthy(Get(dep, "name"))
               /\ Truthy(Get(dep, "version")) => SemverValidRange(Get(dep, "version"))
     /\ Truthy(Get(deps, "prism")) =>
          \A i \in 1..EntryCount(Get(deps, "prism")) :
            SemverValidRange(Get(deps, "prism").v[i][2])

\* script.includes('rm -rf /')
Dangerous(script) == \E i \in 1..Len(script.v) : script.v[i] = "rm -rf /"

\* A validator that lets any script through (sensitivity check of C22).
ValidateHooksLenient(hooks) ==
  \/ ~Truthy(hooks)
  \/ \A i \in 1..EntryCount(hooks) :
       Truthy(hooks.v[i][2]) /\ hooks.v[i][2].k = "str"

ValidateHooks(hooks) ==
  \/ ~Truthy(hooks)
  \/ \A i \in 1..EntryCount(hooks) :
       /\ Truthy(hooks.v[i][2])
       /\ hooks.v[i][2].k = "str"
       /\ ~Dangerous(hooks.v[i][2])

Validate(manifest) ==
  /\ ValidateStructure(manifest)
  /\ ValidateVariants(Get(manifest, "variants"))
  /\ ValidateDependencies(Get(manifest, "dependencies"))
  /\ ValidateHooks(Get(manifest, "hooks"))

(***************************************************************************)
(* Specification SpecMatch: matchesPattern applied to bounded inputs       *)
(***************************************************************************)
PathAlphabet == {"a", "b", "/"}
PatAlphabet == {"a", "/", "*", "?"}

SeqsUpTo(S, n) == UNION {[1..k -> S] : k \in 1..n}

MatchPaths == SeqsUpTo(PathAlphabet, MaxPathLen)
MatchPatterns == SeqsUpTo(PatAlphabet, MaxPatLen)

NoTree == [f \in {} |-> <<>>]
NoOp == [op |-> "none", pkg |-> 0, variant |-> "", hasFiles |-> FALSE,
         preFiles |-> NoTree, preDirs |-> {}, prev |-> <<"none", 0, "">>,
         ret |-> 0]

IdleInstaller == files = NoTree /\ dirs = {} /\ last = NoOp /\ steps = 0
IdleParser == raw = Undef /\ norm = Undef /\ renorm = Undef /\ stage = "idle"
IdleMatcher == mPath = <<>> /\ mPattern = <<>> /\ mResult = "unset"

NoCall == [fn |-> "none"]
Unset == [k |-> "unset"]
IdleCaller == call = NoCall /\ result = Unset
NoHistory == <<>>
NoConfig == [initialized |-> FALSE]
IdleManager == history = NoHistory /\ config = NoConfig /\ pm = NoOp
IdlePackager ==
  /\ sourceDir = [exists |-> FALSE, files |-> {}]
  /\ given = "none"
  /\ collected = Unset
  /\ output = "missing"
  /\ created = Unset

InitMatch ==
  /\ mPath \in MatchPaths
  /\ mPattern \in MatchPatterns
  /\ mResult = "unset"
  /\ IdleInstaller
  /\ IdleParser
  /\ IdleCaller
  /\ IdlePackager
  /\ IdleManager

CallMatchesPattern ==
  /\ mResult = "unset"
  /\ mResult' = IF MatchesPattern(mPath, mPattern) THEN "true" ELSE "false"
  /\ UNCHANGED <<mPath, mPattern, files, dirs, last, steps, raw, norm, renorm, stage,
                 callVars, packVars, pmVars>>

NextMatch == CallMatchesPattern

SpecMatch == InitMatch /\ [][NextMatch]_vars

\* The literal part X of a pattern "**/X": a relative path with no glob
\* metacharacter in it.
IsLiteral(p) ==
  /\ p # <<>> /\ p[1] # "/" /\ p[Len(p)] # "/"
  /\ \A i \in 1..Len(p) : p[i] \notin {"*", "?"}

EndsWith(s, t) == Len(s) >= Len(t) /\ SubstringFrom(s, Len(s) - Len(t)) = t

\* C6: "**" matches zero or more path segments, so a pattern "**/X" matches
\* the path X itself (no leading directory) and every path ending in "/X".
C6_DoubleStarZeroSegments ==
  (/\ mResult # "unset"
   /\ Len(mPattern) > 3
   /\ SubSeq(mPattern, 1, 3) = <<"*", "*", "/">>
   /\ IsLiteral(SubstringFrom(mPattern, 3))
   /\ \/ mPath = SubstringFrom(mPattern, 3)
      \/ EndsWith(mPath, SubstringFrom(mPattern, 2)))
  => mResult = "true"

(***************************************************************************)
(* Specification Spec                                                      *)
(***************************************************************************)
Init ==
  /\ \E t \in InitialTrees : files = t.files /\ dirs = t.dirs
  /\ last = NoOp
  /\ steps = 0
  /\ IdleMatcher
  /\ IdleParser
  /\ IdleCaller
  /\ IdlePackager
  /\ IdleManager

Next ==
  \/ DoInstallFiles
  \/ DoUninstallFiles
  \/ DoRemovePackageFiles
  \/ DoRemoveFromClaudeMd

Spec == Init /\ [][Next]_vars

(***************************************************************************)
(* Installer properties                                                    *)
(***************************************************************************)
Manifest(id) == Packages[id].manifest
Source(id) == Packages[id].source
PreTree == [files |-> last.preFiles, dirs |-> last.preDirs]

\* The aggregated document of a tree; empty when the file is absent.
Doc(f) == IF ClaudeMdPath \in DOMAIN f THEN f[ClaudeMdPath] ELSE <<>>

\* The marker block of a package in a document: from its start-marker line
\* through its end-marker line, or <<>> when the document holds no such block.
BlockOf(doc, packageName) ==
  LET s == IndexOf(doc, StartMarker(packageName) \o <<"\n">>)
      e == IndexOf(doc, EndMarker(packageName) \o <<"\n">>)
  IN IF s # -1 /\ e # -1 /\ s < e
     THEN Substring(doc, s, e + Len(EndMarker(packageName)))
     ELSE <<>>

HasClaudeConfig(manifest) ==
  \E i \in 1..Len(manifest.structure) : manifest.structure[i].type = "claude_config"

\* The structure items that installStructureItem copies, in order.
RECURSIVE CopiedItems(_)
CopiedItems(structure) ==
  IF structure = <<>> THEN <<>>
  ELSE (IF Head(structure).type = "claude_config" THEN <<>> ELSE Head(structure).items)
       \o CopiedItems(Tail(structure))

\* The files of an item that a variant selects, relative to item.source.
Selected(src, item, variantConfig) ==
  IF ~SourceExists(src, item.source) THEN <<>>
  ELSE FilterFilesByVariant(Listing(Glob(src, item.source, item.pattern, item.exclude)),
                            variantConfig, item.source)

\* The files a package's install puts into the tree (every variant's files),
\* with their contents; the aggregated document is not one of them.
InstallImage(id) ==
  LET t == InstallFiles([files |-> NoTree, dirs |-> {}], Source(id), Manifest(id), "zz")
  IN [p \in DOMAIN t.files \ {ClaudeMdPath} |-> t.files[p]]

\* The files of a tree that package id installed.
InstalledBy(f, id) ==
  {p \in DOMAIN f \cap DOMAIN InstallImage(id) : f[p] = InstallImage(id)[p]}

\* C1: removing a package's block from the aggregated document leaves the
\* marker block of every other package exactly as it was, also when the
\* removed name is a proper prefix of the other name.
C1_RemoveKeepsOtherBlocks ==
  last.op \in {"removeFromClaudeMd", "removePackageFiles"} =>
    \A q \in PackageIds \ {last.pkg} :
      BlockOf(Doc(last.preFiles), Manifest(q).name) # <<>> =>
        BlockOf(Doc(files), Manifest(q).name)
          = BlockOf(Doc(last.preFiles), Manifest(q).name)

\* C2: installFiles with a variant name the manifest does not declare
\* installs what the variant returned by resolveVariant (the first declared
\* variant) selects.
C2_UndeclaredVariantInstallsFirstDeclared ==
  (last.op = "installFiles" /\ ~Declares(Manifest(last.pkg), last.variant)) =>
    Tree = InstallEntries(PreTree, Source(last.pkg), Manifest(last.pkg).structure,
                          ResolveVariant(Manifest(last.pkg), last.variant),
                          Manifest(last.pkg).name)

\* C3: after installFiles every selected file of every copied structure item
\* lies under item.dest with {name}, {version} and {author} replaced by the
\* manifest's name, version and author.
C3_FilesUnderResolvedDest ==
  last.op = "installFiles" =>
    LET m == Manifest(last.pkg)
        items == CopiedItems(m.structure)
    IN \A i \in 1..Len(items) :
         LET sel == Selected(Source(last.pkg), items[i], InstallVariant(m, last.variant))
         IN \A j \in 1..Len(sel) :
              LET dest == Join(UninstallDest(items[i], m), sel[j])
              IN /\ dest \in DOMAIN files
                 /\ files[dest] = Source(last.pkg)[Join(items[i].source, sel[j])]

\* C4: a second installFiles with the same package, manifest and variant
\* leaves every file of the tree, .claude/CLAUDE.md included, as the first
\* run left it.
C4_ReinstallIsIdempotent ==
  (last.op = "installFiles" /\ last.prev = <<"installFiles", last.pkg, last.variant>>) =>
    (files = last.preFiles /\ dirs = last.preDirs)

\* C7: uninstallFiles of a manifest with a claude_config item leaves no
\* marker block of that package in the aggregated document.
C7_UninstallRemovesBlock ==
  (last.op = "uninstallFiles" /\ HasClaudeConfig(Manifest(last.pkg))) =>
    BlockOf(Doc(files), Manifest(last.pkg).name) = <<>>

\* C8: removePackageFiles with the record kept at install time (version and
\* manifest) leaves none of the destination directories of the manifest's
\* copied structure items in the tree.
C8_RemovePackageFilesRemovesDests ==
  (last.op = "removePackageFiles" /\ ~last.hasFiles) =>
    LET items == CopiedItems(Manifest(last.pkg).structure)
    IN \A i \in 1..Len(items) :
         /\ ~PathExists(Tree, UninstallDest(items[i], Manifest(last.pkg)))
         /\ ~PathExists(Tree, InstallDest(items[i], Manifest(last.pkg).name))

\* C9: uninstallFiles of an installed package A removes no file that another
\* package B installed into the same project.
C9_UninstallKeepsOtherPackages ==
  (last.op = "uninstallFiles" /\ InstalledBy(last.preFiles, last.pkg) # {}) =>
    \A b \in PackageIds \ {last.pkg} :
      InstalledBy(last.preFiles, b) \subseteq DOMAIN files

(***************************************************************************)
(* Specification SpecParse: parse (normalize), validate, normalize again   *)
(***************************************************************************)
ItemObject == Obj(<< <<"source", Str(<<"commands/">>)>>,
                     <<"dest", Str(<<".claude/commands/{name}/">>)>> >>)
ItemAliased == Obj(<< <<"from", Str(<<"commands/">>)>>,
                      <<"to", Str(<<".claude/commands/{name}/">>)>>,
                      <<"pattern", Str(<<"*.md">>)>>,
                      <<"exclude", List(<<Str(<<"draft.md">>)>>)>> >>)
ItemNoDest == Obj(<< <<"source", Str(<<"commands/">>)>> >>)

RawStructures ==
  { Undef,
    Obj(<<>>),
    Obj(<< <<"commands", Str(<<"commands/">>)>> >>),
    Obj(<< <<"commands", List(<<Str(<<"commands/">>)>>)>> >>),
    Obj(<< <<"commands", List(<<ItemObject>>)>> >>),
    Obj(<< <<"commands", ItemObject>>, <<"scripts", List(<<ItemAliased>>)>> >>),
    Obj(<< <<"commands", List(<<ItemNoDest>>)>> >>),
    Obj(<< <<"plugins", List(<<ItemObject>>)>> >>),
    Obj(<< <<"commands", List(<<Bool(TRUE)>>)>> >>) }

Minimal == <<"m", "i", "n", "i", "m", "a", "l">>
CorePatterns == List(<<Str(<<"commands/core/*">>)>>)

RawVariants ==
  { Undef,
    Null,
    Obj(<<>>),
    Obj(<< <<Minimal, Obj(<< <<"description", Str(<<"Core only">>)>>,
                             <<"include", CorePatterns>> >>)>> >>),
    Obj(<< <<Minimal, Obj(<< <<"description", Str(<<"Core only">>)>>,
                             <<"include", CorePatterns>>,
                             <<"exclude", List(<<Str(<<"**/x.md">>)>>)>> >>)>>,
           <<<<"f", "u", "l", "l">>,
             Obj(<< <<"description", Str(<<"Everything">>)>>,
                    <<"include", List(<<Str(<<"**/*">>)>>)>> >>)>> >>),
    Obj(<< <<Minimal, Obj(<< <<"include", CorePatterns>> >>)>> >>),
    Obj(<< <<Minimal, Obj(<< <<"description", Str(<<"Core only">>)>> >>)>> >>),
    Obj(<< <<Minimal, Obj(<< <<"description", Str(<<"Core only">>)>>,
                             <<"include", Str(<<"commands/core/*">>)>> >>)>> >>),
    Obj(<< <<Minimal, Obj(<< <<"description", Str(<<"Core only">>)>>,
                             <<"include", List(<<>>)>> >>)>> >>),
    Obj(<< <<<<"M", "i", "n">>,
             Obj(<< <<"description", Str(<<"Core only">>)>>,
                    <<"include", CorePatterns>> >>)>> >>) }

RawDependencies ==
  { Undef,
    Obj(<< <<"system", List(<<Str(<<"git">>),
                              Obj(<< <<"name", Str(<<"yq">>)>>,
                                     <<"required", Bool(FALSE)>> >>)>>)>>,
           <<"prism", Obj(<< <<"base", Str(<<"^1.0.0">>)>> >>)>> >>),
    Obj(<< <<"system", List(<<Obj(<< <<"required", Bool(TRUE)>> >>)>>)>> >>),
    Obj(<< <<"prism", Obj(<< <<"base", Str(<<"latest">>)>> >>)>> >>) }

RawHooks ==
  { Undef,
    Obj(<< <<"postInstall", Str(<<"echo done">>)>> >>),
    Obj(<< <<"postInstall", Str(<<"rm -rf /", " tmp">>)>> >>),
    Obj(<< <<"onInstall", Str(<<"echo done">>)>> >>),
    Obj(<< <<"postInstall", List(<<Str(<<"echo done">>)>>)>> >>) }

\* The optional descriptive fields: all absent, or all present.
RawExtras ==
  { <<>>,
    << <<"author", Str(<<"Ann">>)>>, <<"license", Str(<<"Apache-2.0">>)>>,
       <<"repository", Str(<<"github.com/ann/pkg">>)>>,
       <<"homepage", Str(<<"ann.example">>)>>,
       <<"keywords", List(<<Str(<<"git">>)>>)>>,
       <<"claudeCode", Obj(<< <<"minVersion", Str(<<"1.0.0">>)>> >>)>>,
       <<"ignore", List(<<Str(<<"*.log">>)>>)>> >> }

RawNames == {Undef, Str(<<"p", "k", "g", "-", "1">>), Str(<<"P", "k", "g">>)}
RawVersions == {Str(<<"1.0.0">>), Str(<<"1.0">>), Str(<<"1.0.0-beta.1">>)}
RawDescriptions == {Undef, Str(<<"A package">>)}

Field(key, value) == IF value = Undef THEN <<>> ELSE << <<key, value>> >>

RawManifests ==
  { Obj(Field("name", n) \o Field("version", v) \o Field("description", d)
        \o x \o Field("structure", st) \o Field("variants", vs)
        \o Field("dependencies", dp) \o Field("hooks", h)) :
      n \in RawNames, v \in RawVersions, d \in RawDescriptions, x \in RawExtras,
      st \in RawStructures, vs \in RawVariants, dp \in RawDependencies, h \in RawHooks }

InitParse ==
  /\ raw \in RawManifests
  /\ norm = Undef
  /\ renorm = Undef
  /\ stage = "raw"
  /\ IdleMatcher
  /\ IdleInstaller
  /\ IdleCaller
  /\ IdlePackager
  /\ IdleManager

\* parseYaml: normalize the parsed document; any throw is a ValidationError.
DoNormalize ==
  /\ stage = "raw"
  /\ norm' = Normalize(raw)
  /\ stage' = IF IsErr(Normalize(raw)) THEN "rejected" ELSE "normalized"
  /\ UNCHANGED <<raw, renorm, mPath, mPattern, mResult, files, dirs, last, steps,
                 callVars, packVars, pmVars>>

\* validate(manifest) on the normalized manifest.
DoValidate ==
  /\ stage = "normalized"
  /\ stage' = IF Validate(norm) THEN "accepted" ELSE "rejected"
  /\ UNCHANGED <<raw, norm, renorm, mPath, mPattern, mResult, files, dirs, last, steps,
                 callVars, packVars, pmVars>>

\* normalize applied to a manifest that normalize returned.
DoNormalizeAgain ==
  /\ stage \in {"normalized", "accepted"}
  /\ renorm = Undef
  /\ renorm' = Normalize(norm)
  /\ UNCHANGED <<raw, norm, stage, mPath, mPattern, mResult, files, dirs, last, steps,
                 callVars, packVars, pmVars>>

NextParse == DoNormalize \/ DoValidate \/ DoNormalizeAgain

SpecParse == InitParse /\ [][NextParse]_vars

\* C5: normalize is idempotent: normalizing a normalized manifest returns
\* it field by field.
C5_NormalizeIdempotent == renorm # Undef => renorm = norm

\* A declared variant without a description, or whose include list is
\* missing, not a list, or empty.
Deficient(variant) ==
  \/ ~Truthy(Get(variant, "description"))
  \/ ~IsArray(Get(variant, "include"))
  \/ Len(Get(variant, "include").v) = 0

\* C10: a manifest declaring a deficient variant is never accepted by
\* parse followed by validate.
C10_DeficientVariantRejected ==
  stage = "accepted" =>
    \A i \in 1..EntryCount(Get(raw, "variants")) :
      ~Deficient(Get(raw, "variants").v[i][2])

(***************************************************************************)
(* Specification SpecPack: FileManager.createPackage on a source directory *)
(***************************************************************************)
ManifestFile == <<"prism-package.yaml">>
AdditionalFiles == {<<"README.md">>, <<"LICENSE">>, <<"CHANGELOG.md">>}

\* The manifest createPackage builds when none is passed.
FallbackManifest ==
  [structure |-> <<
     [type |-> "commands",
      items |-> << [source |-> <<"commands", "/">>, pattern |-> MatchAll,
                    exclude |-> <<>>] >>],
     [type |-> "scripts",
      items |-> << [source |-> <<"scripts", "/">>, pattern |-> MatchAll,
                    exclude |-> <<>>] >>] >>,
   ignore |-> << <<".git">>, <<"node_modules">>, <<"*", ".log">> >>]

\* A manifest that packages commands only, markdown files only.
CommandsManifest ==
  [structure |-> <<
     [type |-> "commands",
      items |-> << [source |-> <<"commands", "/">>, pattern |-> <<"*", ".md">>,
                    exclude |-> <<>>] >>] >>,
   ignore |-> << <<"node_modules">>, <<".git">>, <<".DS_Store">> >>]

GivenManifests == {"none", "commands"}

PackManifest(g) == IF g = "none" THEN FallbackManifest ELSE CommandsManifest

\* The files a source directory may hold.
SourceFiles ==
  { ManifestFile, <<"README.md">>, <<"notes">>,
    <<"commands", "/", "a", ".md">>, <<"commands", "/", "x", ".log">>,
    <<"scripts", "/", "s">> }

AsSource(S) == [p \in S |-> <<>>]

\* The paths one structure item contributes: nothing when its source
\* directory is missing, else the glob result joined to item.source.
ItemFiles(S, item, ignore) ==
  IF ~SourceExists(AsSource(S), item.source) THEN {}
  ELSE {Join(item.source, f) :
          f \in Glob(AsSource(S), item.source, item.pattern, item.exclude \o ignore)}

\* collectPackageFiles: the Set allFiles, returned as an array.
CollectPackageFiles(S, manifest) ==
  (IF ManifestFile \in S THEN {ManifestFile} ELSE {})
  \cup UNION {ItemFiles(S, AllItems(manifest.structure)[i], manifest.ignore) :
                i \in 1..Len(AllItems(manifest.structure))}
  \cup (AdditionalFiles \cap S)

\* What tar.create may leave behind: it throws, or it returns with no file,
\* an empty file, or a written archive.
ArchiveOutcomes == {"throws", "missing", "empty", "written"}

Failed(message) == [k |-> "error", v |-> message]
Returned(value) == [k |-> "ok", v |-> value]

\* createPackage up to its return, for one outcome of the archive step.
CreatePackage(dir, g, outcome) ==
  LET found == CollectPackageFiles(dir.files, PackManifest(g))
  IN IF ~dir.exists
     THEN [created |-> Failed("Source directory does not exist"), output |-> "missing"]
     ELSE IF found = {}
     THEN [created |-> Failed("No files found to package"), output |-> "missing"]
     ELSE IF outcome = "throws"
     THEN [created |-> Failed("Failed to create package archive"), output |-> "missing"]
     ELSE IF outcome = "missing"
     THEN [created |-> Failed("Failed to create package archive"), output |-> "missing"]
     ELSE [created |-> Returned("outputPath"), output |-> outcome]

InitPack ==
  /\ \E e \in BOOLEAN, S \in SUBSET SourceFiles :
       /\ e = FALSE => S = {}
       /\ sourceDir = [exists |-> e, files |-> S]
  /\ given \in GivenManifests
  /\ collected = Unset
  /\ output = "missing"
  /\ created = Unset
  /\ IdleMatcher
  /\ IdleInstaller
  /\ IdleParser
  /\ IdleCaller
  /\ IdleManager

DoCollectPackageFiles ==
  /\ collected = Unset
  /\ collected' = Returned(CollectPackageFiles(sourceDir.files, PackManifest(given)))
  /\ UNCHANGED <<sourceDir, given, output, created>>
  /\ UNCHANGED <<mPath, mPattern, mResult, files, dirs, last, steps, raw, norm, renorm,
                 stage, callVars, pmVars>>

DoCreatePackage ==
  /\ created = Unset
  /\ \E outcome \in ArchiveOutcomes :
       LET r == CreatePackage(sourceDir, given, outcome)
       IN created' = r.created /\ output' = r.output
  /\ UNCHANGED <<sourceDir, given, collected>>
  /\ UNCHANGED <<mPath, mPattern, mResult, files, dirs, last, steps, raw, norm, renorm,
                 stage, callVars, pmVars>>

NextPack == DoCollectPackageFiles \/ DoCreatePackage

SpecPack == InitPack /\ [][NextPack]_vars

\* C11: collectPackageFiles never returns an empty collection as a
\* successful result: with nothing to collect it fails with an error.
C11_CollectNeverEmpty ==
  (sourceDir.exists /\ collected.k = "ok") => collected.v # {}

\* C12: createPackage returns the output path only if the archive file
\* exists with a size above zero after the archive step.
C12_ReturnsOnlyNonEmptyArchive ==
  created.k = "ok" => output = "written"

(***************************************************************************)
(* Specification SpecCall: the pure methods applied to bounded arguments   *)
(*   FileManager.resolveDestPath, ManifestParser.resolveVariant,           *)
(*   FileManager.filterFilesByVariant                                      *)
(***************************************************************************)
MaxTemplateLen == 3
MaxFiles == 2

Tokens == {"{name}", "{version}", "{author}"}
TemplateAlphabet == {"a", "/"} \cup Tokens
Templates == SeqsUpTo(TemplateAlphabet, MaxTemplateLen)

\* A whole manifest, and the object installStructureItem passes (name only:
\* version and author undefined, hence '').
TokenManifests ==
  { [name |-> <<"n">>, version |-> <<"1.0.0">>, author |-> <<"u">>],
    [name |-> <<"n">>, version |-> <<>>, author |-> <<>>] }

\* Manifests for resolveVariant: no variant, or declared ones in order.
VariantPool ==
  { Variant("minimal", "Core only", << <<"c", "/", "k", "/", "*">> >>, <<>>),
    Variant("full", "Everything", <<MatchAll>>, <<>>),
    Variant("lean", "No experiments", <<MatchAll>>, << <<"c", "/", "x", "/", "*">> >>) }

VariantLists ==
  {<<>>} \cup {<<v>> : v \in VariantPool}
         \cup {p \in {<<v, w>> : v \in VariantPool, w \in VariantPool} :
                 p[1].name # p[2].name}

VariantNames == {"minimal", "full", "lean", "default", "zz"}

\* Arguments of filterFilesByVariant.
FilterFiles == { <<"k", "/", "b">>, <<"x", "/", "a">>, <<"a">> }
FileLists == {<<>>} \cup SeqsUpTo(FilterFiles, MaxFiles)
FilterIncludes ==
  { <<MatchAll>>, <<>>, << <<"c", "/", "k", "/", "*">> >>,
    << <<"c", "/", "*">>, <<"k", "/", "*">> >> }
FilterExcludes ==
  { <<>>, << <<"c", "/", "x", "/", "*">> >>, << <<"*", "*", "/", "a">>, <<"a">> >> }
FilterPrefixes == { <<>>, <<"c", "/">>, <<"c">> }

Calls ==
  { [fn |-> "resolveDestPath", destPattern |-> t, manifest |-> m] :
      t \in Templates, m \in TokenManifests }
  \cup
  { [fn |-> "resolveVariant", manifest |-> [variants |-> vs], variantName |-> n] :
      vs \in VariantLists, n \in VariantNames }
  \cup
  { [fn |-> "filterFilesByVariant", files |-> fl,
     variantConfig |-> [include |-> inc, exclude |-> exc], basePath |-> b] :
      fl \in FileLists, inc \in FilterIncludes, exc \in FilterExcludes,
      b \in FilterPrefixes }

InitCall ==
  /\ call \in Calls
  /\ result = Unset
  /\ IdleMatcher
  /\ IdleInstaller
  /\ IdleParser
  /\ IdlePackager
  /\ IdleManager

Return(value) ==
  /\ result = Unset
  /\ result' = Returned(value)
  /\ UNCHANGED <<call, packVars, pmVars>>
  /\ UNCHANGED <<mPath, mPattern, mResult, files, dirs, last, steps, raw, norm, renorm,
                 stage>>

CallResolveDestPath ==
  /\ call.fn = "resolveDestPath"
  /\ Return(ResolveDestPath(call.destPattern, call.manifest))

CallResolveVariant ==
  /\ call.fn = "resolveVariant"
  /\ Return(ResolveVariant(call.manifest, call.variantName))

CallFilterFilesByVariant ==
  /\ call.fn = "filterFilesByVariant"
  /\ Return(FilterFilesByVariant(call.files, call.variantConfig, call.basePath))

NextCall == CallResolveDestPath \/ CallResolveVariant \/ CallFilterFilesByVariant

SpecCall == InitCall /\ [][NextCall]_vars

Returns(fn) == call.fn = fn /\ result.k = "ok"

\* The template with each token symbol replaced by the manifest's field.
Substitute(symbol, m) ==
  CASE symbol = "{name}" -> m.name
    [] symbol = "{version}" -> m.version
    [] symbol = "{author}" -> m.author
    [] OTHER -> <<symbol>>

RECURSIVE SubstituteAll(_, _)
SubstituteAll(t, m) ==
  IF t = <<>> THEN <<>> ELSE Substitute(Head(t), m) \o SubstituteAll(Tail(t), m)

\* C13: resolveDestPath returns the template with every occurrence of
\* {name}, {version} and {author} replaced by the manifest's field and all
\* other text unchanged.
C13_EveryTokenReplaced ==
  Returns("resolveDestPath") =>
    result.v = SubstituteAll(call.destPattern, call.manifest)

\* C14: resolveVariant returns the declared variant unchanged when the
\* manifest declares the name, otherwise the first declared variant, and the
\* synthetic 'Default installation' variant when there are no variants.
C14_ResolveVariant ==
  Returns("resolveVariant") =>
    LET vs == call.manifest.variants
        n == call.variantName
        declared == {i \in 1..Len(vs) : vs[i].name = n}
    IN /\ \A i \in declared : result.v = vs[i]
       /\ (vs # <<>> /\ declared = {}) => result.v = vs[1]
       /\ vs = <<>> =>
            /\ result.v.description = "Default installation"
            /\ result.v.include = <<MatchAll>>
            /\ result.v.exclude = <<>>

\* An undeclared name was resolved against two declared variants.
C14_Witness ==
  /\ Returns("resolveVariant")
  /\ Len(call.manifest.variants) = 2
  /\ \A i \in 1..2 : call.manifest.variants[i].name # call.variantName
  /\ result.v = call.manifest.variants[1]

\* C16: filterFilesByVariant returns exactly the input files whose path
\* (basePath joined with the file) matches an include pattern and no exclude
\* pattern, in the input's order, adding and duplicating nothing.
C16_FilterExactInOrder ==
  Returns("filterFilesByVariant") =>
    LET in == call.files
        out == result.v
        path(f) == Join(call.basePath, f)
        inc == call.variantConfig.include
        exc == call.variantConfig.exclude
        survives(f) ==
          /\ \E i \in 1..Len(inc) : MatchesPattern(path(f), inc[i])
          /\ \A i \in 1..Len(exc) : ~MatchesPattern(path(f), exc[i])
        kept == {i \in 1..Len(in) : survives(in[i])}
        nth(j) == CHOOSE i \in kept : Cardinality({x \in kept : x < i}) = j - 1
    IN /\ Len(out) = Cardinality(kept)
       /\ \A j \in 1..Len(out) : out[j] = in[nth(j)]

\* Two files were given, the first was excluded and the second survived.
C16_Witness ==
  /\ Returns("filterFilesByVariant")
  /\ Len(call.files) = 2
  /\ call.variantConfig.exclude # <<>>
  /\ SomeMatch(call.variantConfig.exclude, Join(call.basePath, call.files[1]))
  /\ SomeMatch(call.variantConfig.include, Join(call.basePath, call.files[1]))
  /\ result.v = <<call.files[2]>>

(***************************************************************************)
(* Properties of matchesPattern (SpecMatch)                                *)
(***************************************************************************)
\* No "**" in the pattern: every "*" stands alone.
SingleStars(p) == \A i \in 1..(Len(p) - 1) : ~(p[i] = "*" /\ p[i + 1] = "*")

\* The whole path matches the pattern, "*" standing for a run of characters
\* without "/" and "?" for one character other than "/".
RECURSIVE WildMatch(_, _)
WildMatch(p, s) ==
  IF p = <<>> THEN s = <<>>
  ELSE IF Head(p) = "*"
       THEN \E k \in 0..Len(s) :
              /\ \A i \in 1..k : s[i] # "/"
              /\ WildMatch(Tail(p), SubSeq(s, k + 1, Len(s)))
  ELSE IF Head(p) = "?"
       THEN s # <<>> /\ s[1] # "/" /\ WildMatch(Tail(p), Tail(s))
  ELSE s # <<>> /\ s[1] = Head(p) /\ WildMatch(Tail(p), Tail(s))

\* C15: matchesPattern is a whole-string match in which "*" matches any run
\* of characters containing no "/" and "?" exactly one character other than
\* "/"; the pattern "**/*" matches every path.
C15_StarAndQuestionMark ==
  mResult # "unset" =>
    /\ mPattern = MatchAll => mResult = "true"
    /\ SingleStars(mPattern) => (mResult = "true" <=> WildMatch(mPattern, mPath))

\* "*" was asked to match a path with a separator in it, and did not.
C15_Witness ==
  /\ mPattern = <<"a", "?", "*">>
  /\ mPath = <<"a", "/", "b">>
  /\ mResult = "false"

(***************************************************************************)
(* Properties of the installer, continued (Spec)                           *)
(***************************************************************************)
\* The path of a package file relative to the source directory of an item.
RelativeTo(p, source) == SubstringFrom(p, Len(StripSlash(source)) + 1)

\* A file of an item that belongs to the install: it matches item.pattern
\* and no item.exclude pattern, and the variant includes and does not
\* exclude its path under item.source.
BelongsToInstall(item, variantConfig, rel) ==
  /\ GlobMatch(item.pattern, rel)
  /\ \A i \in 1..Len(item.exclude) : ~GlobMatch(item.exclude[i], rel)
  /\ SomeMatch(variantConfig.include, Join(item.source, rel))
  /\ ~SomeMatch(variantConfig.exclude, Join(item.source, rel))

\* C17: for a copied structure item whose source exists, installFiles
\* writes the file dest/<relative path> if and only if the file lies under
\* item.source, matches item.pattern and no item.exclude pattern, and
\* survives the filter of the selected variant with item.source as prefix.
C17_InstalledIffSelected ==
  (last.op = "installFiles" /\ Declares(Manifest(last.pkg), last.variant)) =>
    LET m == Manifest(last.pkg)
        src == Source(last.pkg)
        items == CopiedItems(m.structure)
        variantConfig == Declared(m, last.variant)
    IN \A i \in 1..Len(items) :
         \A p \in {q \in DOMAIN src : IsUnder(q, items[i].source)} :
           LET rel == RelativeTo(p, items[i].source)
               dest == Join(InstallDest(items[i], m.name), rel)
           IN IF BelongsToInstall(items[i], variantConfig, rel)
              THEN dest \in DOMAIN files /\ files[dest] = src[p]
              ELSE /\ dest \in DOMAIN files <=> dest \in DOMAIN last.preFiles
                   /\ dest \in DOMAIN files => files[dest] = last.preFiles[dest]

\* Variant minimal of "f" was installed into a tree without its commands:
\* k/b is there and x/a is not.
C17_Witness ==
  /\ last.op = "installFiles" /\ last.pkg = 1 /\ last.variant = "minimal"
  /\ <<".claude", "/", "c", "/", "f", "/", "k", "/", "b">> \in DOMAIN files
  /\ <<".claude", "/", "c", "/", "f", "/", "x", "/", "a">> \notin DOMAIN files

\* The claude_config items of a manifest, in order.
RECURSIVE ConfigItems(_)
ConfigItems(structure) ==
  IF structure = <<>> THEN <<>>
  ELSE (IF Head(structure).type = "claude_config" THEN Head(structure).items ELSE <<>>)
       \o ConfigItems(Tail(structure))

\* The variant leaves the item's file out: not included, or excluded.
LeftOut(item, variantConfig) ==
  \/ ~SomeMatch(variantConfig.include, Join(item.source, item.pattern))
  \/ SomeMatch(variantConfig.exclude, Join(item.source, item.pattern))

\* C18: when the selected variant does not include, or excludes, the path
\* of every claude_config item, installFiles leaves the aggregated document
\* as it was: not created, no marker added, no block removed.
C18_LeftOutConfigKeepsDocument ==
  (/\ last.op = "installFiles"
   /\ HasClaudeConfig(Manifest(last.pkg))
   /\ \A i \in 1..Len(ConfigItems(Manifest(last.pkg).structure)) :
        LeftOut(ConfigItems(Manifest(last.pkg).structure)[i],
                InstallVariant(Manifest(last.pkg), last.variant)))
  => /\ ClaudeMdPath \in DOMAIN files <=> ClaudeMdPath \in DOMAIN last.preFiles
     /\ Doc(files) = Doc(last.preFiles)

\* "f" was installed with variant lean, which excludes its rules, into a
\* tree whose document already held the block of "f": the block is kept.
C18_Witness ==
  /\ last.op = "installFiles" /\ last.pkg = 1 /\ last.variant = "lean"
  /\ BlockOf(Doc(last.preFiles), <<"f">>) # <<>>
  /\ BlockOf(Doc(files), <<"f">>) = BlockOf(Doc(last.preFiles), <<"f">>)

\* C19: uninstallFiles leaves no resolved destination of a structure item
\* in the tree, leaves everything outside those destinations alone, and
\* returns the number of destinations it removed: those that existed when
\* their turn came, i.e. existed before and lay under no earlier item's
\* destination.
C19_UninstallRemovesAndCounts ==
  last.op = "uninstallFiles" =>
    LET m == Manifest(last.pkg)
        items == AllItems(m.structure)
        dest(i) == UninstallDest(items[i], m)
        removed == {i \in 1..Len(items) :
                      /\ PathExists(PreTree, dest(i))
                      /\ \A j \in 1..(i - 1) : ~IsUnder(StripSlash(dest(i)), dest(j))}
        outside(p) == \A i \in 1..Len(items) : ~IsUnder(p, dest(i))
    IN /\ \A i \in 1..Len(items) : ~PathExists(Tree, dest(i))
       /\ last.ret = Cardinality(removed)
       /\ \A p \in DOMAIN last.preFiles :
            outside(p) => p \in DOMAIN files /\ files[p] = last.preFiles[p]
       /\ \A p \in DOMAIN files :
            p \in DOMAIN last.preFiles /\ outside(p)

\* "g" was uninstalled after its install: two of its three destinations
\* existed and were removed, the third (its missing commands) was skipped.
C19_Witness ==
  /\ last.op = "uninstallFiles" /\ last.pkg = 3 /\ last.ret = 2
  /\ last.prev = <<"installFiles", 3, "default">>

(***************************************************************************)
(* Properties of the manifest pipeline, continued (SpecParse)              *)
(***************************************************************************)
DefaultName == <<"d", "e", "f", "a", "u", "l", "t">>

\* C20: normalizing a manifest that declares no variants yields a variants
\* mapping with exactly one entry, named default, whose include list is
\* exactly ['**/*']; no normalized manifest has an empty variants mapping.
C20_DefaultVariantSynthesized ==
  norm.k = "obj" =>
    /\ EntryCount(Get(norm, "variants")) >= 1
    /\ EntryCount(Get(raw, "variants")) = 0 =>
         /\ EntryCount(Get(norm, "variants")) = 1
         /\ Get(norm, "variants").v[1][1] = DefaultName
         /\ Get(Get(norm, "variants"), DefaultName).k = "obj"
         /\ Get(Get(Get(norm, "variants"), DefaultName), "include")
              = List(<<Str(<<"**/*">>)>>)

\* A manifest written with an empty variants mapping was normalized.
C20_Witness ==
  /\ norm.k = "obj"
  /\ Get(raw, "variants") = Obj(<<>>)
  /\ EntryCount(Get(norm, "variants")) = 1

NonEmptyString(x) == x.k = "str" /\ x.v # <<>>

\* C21: every manifest accepted by parse and then validate has a name
\* matching ^[a-z0-9-_]+$, a valid semver version, a non-empty description,
\* a non-empty structure whose type tags all belong to the enumeration, and
\* items that all have a non-empty source and a non-empty dest; a document
\* lacking one of these is never accepted.
C21_AcceptedManifestWellFormed ==
  stage = "accepted" =>
    LET structure == Get(norm, "structure")
    IN /\ Get(norm, "name") = Get(raw, "name")
       /\ Get(norm, "version") = Get(raw, "version")
       /\ Get(norm, "description") = Get(raw, "description")
       /\ PackageNameOk(Get(norm, "name"))
       /\ SemverValid(Get(norm, "version"))
       /\ NonEmptyString(Get(norm, "description"))
       /\ structure.k = "obj" /\ Len(structure.v) >= 1
       /\ EntryCount(Get(raw, "structure")) >= 1
       /\ \A i \in 1..Len(structure.v) :
            /\ structure.v[i][1] \in ValidTypes
            /\ structure.v[i][2].k = "list"
            /\ \A j \in 1..Len(structure.v[i][2].v) :
                 /\ NonEmptyString(Get(structure.v[i][2].v[j], "source"))
                 /\ NonEmptyString(Get(structure.v[i][2].v[j], "dest"))

\* A manifest with two structure types, one item written with the from/to
\* aliases, was accepted.
C21_Witness ==
  /\ stage = "accepted"
  /\ Len(Get(norm, "structure").v) = 2
  /\ Get(Get(raw, "structure"), "scripts") = List(<<ItemAliased>>)

\* C28: installing the claude_config block of a package leaves the marker
\* block of every other package already in the aggregated document exactly
\* as it was, also when the installed name is a proper prefix of the other.
C28_AppendKeepsOtherBlocks ==
  last.op = "installFiles" =>
    \A q \in PackageIds \ {last.pkg} :
      BlockOf(Doc(last.preFiles), Manifest(q).name) # <<>> =>
        BlockOf(Doc(files), Manifest(q).name)
          = BlockOf(Doc(last.preFiles), Manifest(q).name)

\* The copied items of a manifest whose source is missing from the package.
MissingItems(id) ==
  {i \in 1..Len(CopiedItems(Manifest(id).structure)) :
     ~SourceExists(Source(id), CopiedItems(Manifest(id).structure)[i].source)}

\* C24: when the source of a structure item is missing, installFiles skips
\* that item and returns: it creates nothing at the item's destination, and
\* every other item, declared before or after it, is installed (its selected
\* files are written, its document block is in the aggregated document).
C24_MissingSourceSkipped ==
  (last.op = "installFiles" /\ MissingItems(last.pkg) # {}) =>
    LET m == Manifest(last.pkg)
        src == Source(last.pkg)
        items == CopiedItems(m.structure)
        configs == ConfigItems(m.structure)
        variantConfig == InstallVariant(m, last.variant)
    IN /\ \A i \in MissingItems(last.pkg) :
            PathExists([files |-> files, dirs |-> dirs], InstallDest(items[i], m.name))
              <=> PathExists(PreTree, InstallDest(items[i], m.name))
       /\ \A i \in (1..Len(items)) \ MissingItems(last.pkg) :
            \A p \in {q \in DOMAIN src : IsUnder(q, items[i].source)} :
              LET rel == RelativeTo(p, items[i].source)
                  dest == Join(InstallDest(items[i], m.name), rel)
              IN BelongsToInstall(items[i], variantConfig, rel) =>
                   dest \in DOMAIN files /\ files[dest] = src[p]
       /\ \A i \in 1..Len(configs) :
            (/\ ~LeftOut(configs[i], variantConfig)
             /\ StripSlash(Join(configs[i].source, configs[i].pattern)) \in DOMAIN src)
            => BlockOf(Doc(files), m.name) # <<>>

\* "g" declares scripts, then commands (missing from the package), then its
\* rules: the script before and the document block after are installed.
C24_Witness ==
  /\ last.op = "installFiles" /\ last.pkg = 3 /\ last.variant = "default"
  /\ MissingItems(3) # {}
  /\ <<".claude", "/", "s", "/", "g", "/", "t">> \in DOMAIN files
  /\ <<".claude", "/", "s", "/", "g", "/", "t">> \notin DOMAIN last.preFiles
  /\ BlockOf(Doc(files), <<"g">>) # <<>>
  /\ BlockOf(Doc(last.preFiles), <<"g">>) = <<>>

\* C25: when a copy throws, installFiles throws: the files copied and the
\* blocks appended before the failing copy stay in the tree (no rollback),
\* and nothing after it is processed: the failing file and every later file
\* are as they were, and so is the aggregated document unless an earlier
\* step wrote it.
C25_CopyFailureStopsWithoutRollback ==
  last.op = "installFilesThrew" =>
    LET m == Manifest(last.pkg)
        src == Source(last.pkg)
        variantConfig == InstallVariant(m, last.variant)
        todo == InstallSteps(src, m.structure, variantConfig)
        at == CopyIndex(todo, last.ret)
        dest(i) == StepDest(todo[i], m.name)
        from(i) == StripSlash(Join(todo[i].item.source, todo[i].file))
    IN /\ \A i \in Copies(todo) :
            IF i < at
            THEN dest(i) \in DOMAIN files /\ files[dest(i)] = src[from(i)]
            ELSE (\A j \in Copies(todo) : j < at => dest(j) # dest(i)) =>
                   /\ dest(i) \in DOMAIN files <=> dest(i) \in DOMAIN last.preFiles
                   /\ dest(i) \in DOMAIN files => files[dest(i)] = last.preFiles[dest(i)]
       /\ IF \E i \in 1..(at - 1) : todo[i].kind = "append"
          THEN \A i \in 1..(at - 1) :
                 (/\ todo[i].kind = "append"
                  /\ ~LeftOut(todo[i].item, variantConfig)
                  /\ StripSlash(Join(todo[i].item.source, todo[i].item.pattern)) \in DOMAIN src)
                 => BlockOf(Doc(files), m.name) # <<>>
          ELSE /\ ClaudeMdPath \in DOMAIN files <=> ClaudeMdPath \in DOMAIN last.preFiles
               /\ Doc(files) = Doc(last.preFiles)

\* The second copy of "f" (variant full) threw: the first file is in place,
\* the second is not, and the document did not get the block of "f".
C25_Witness ==
  /\ last.op = "installFilesThrew" /\ last.pkg = 1 /\ last.variant = "full"
  /\ last.ret = 2
  /\ \E p \in DOMAIN files \ DOMAIN last.preFiles : IsUnder(p, <<".claude", "/", "c", "/", "f">>)
  /\ Cardinality({p \in DOMAIN files : IsUnder(p, <<".claude", "/", "c", "/", "f">>)}) = 1
  /\ BlockOf(Doc(files), <<"f">>) = <<>>
(***************************************************************************)
(* Specification SpecDoc: appendToClaudeMd and removeFromClaudeMd, any     *)
(* order, for packages whose names are no prefix of one another            *)
(***************************************************************************)
MaxDocOps == 4

DocNames == {<<"f">>, <<"g">>}
DocContents == {<<"rules">>, <<"more", "\n", "rules">>}
DocItem == Item(<<"m", "/">>, <<".claude", "/", "m", "/">>, <<"r", ".md">>, <<>>)
DocSource(content) == (<<"m", "/", "r", ".md">> :> content)
DocVariant == Variant("full", "Everything", <<MatchAll>>, <<>>)

InitDoc ==
  /\ \E t \in InitialTrees : files = t.files /\ dirs = t.dirs
  /\ history = [n \in DocNames |-> [op |-> "none", content |-> <<>>, installs |-> 0]]
  /\ steps = 0
  /\ last = NoOp
  /\ config = NoConfig
  /\ pm = NoOp
  /\ IdleMatcher
  /\ IdleParser
  /\ IdleCaller
  /\ IdlePackager

DocDone(t, name, entry) ==
  /\ files' = t.files
  /\ dirs' = t.dirs
  /\ history' = [history EXCEPT ![name] = entry]
  /\ steps' = steps + 1
  /\ UNCHANGED <<mPath, mPattern, mResult, last, raw, norm, renorm, stage,
                 callVars, packVars, config, pm>>

DoAppendToClaudeMd ==
  \E name \in DocNames, content \in DocContents :
    /\ steps < MaxDocOps
    /\ DocDone(AppendToClaudeMd(Tree, DocSource(content), DocItem, DocVariant, name),
               name,
               [op |-> "install", content |-> content,
                installs |-> history[name].installs + 1])

DoRemoveBlock ==
  \E name \in DocNames :
    /\ steps < MaxDocOps
    /\ DocDone(RemoveFromClaudeMd(Tree, name), name,
               [history[name] EXCEPT !.op = "remove"])

NextDoc == DoAppendToClaudeMd \/ DoRemoveBlock

SpecDoc == InitDoc /\ [][NextDoc]_vars

\* The number of places where sub occurs in doc.
Occurrences(doc, sub) ==
  Cardinality({i \in 1..(Len(doc) - Len(sub) + 1) :
                 SubSeq(doc, i, i + Len(sub) - 1) = sub})

\* C26: after any sequence of appendToClaudeMd and removeFromClaudeMd, the
\* document holds per package at most one start and one end marker, the
\* start before the end; exactly one block, holding the most recently
\* installed content, when the package's last operation was an install;
\* and no marker of the package when its last operation was a removal.
C26_OneBlockPerPackage ==
  \A name \in DOMAIN history :
    LET doc == Doc(files)
        starts == Occurrences(doc, StartMarker(name))
        ends == Occurrences(doc, EndMarker(name))
    IN /\ starts <= 1 /\ ends <= 1
       /\ (starts = 1 /\ ends = 1) =>
            IndexOf(doc, StartMarker(name)) < IndexOf(doc, EndMarker(name))
       /\ history[name].op = "install" =>
            /\ starts = 1 /\ ends = 1
            /\ BlockOf(doc, name)
                 = StartMarker(name) \o <<"\n">> \o history[name].content
                   \o <<"\n">> \o EndMarker(name)
       /\ history[name].op = "remove" => starts = 0 /\ ends = 0

\* "f" was installed twice and its block is there once, with the content of
\* the second install; "g" was installed and then removed.
C26_Witness ==
  /\ DOMAIN history = DocNames
  /\ history[<<"f">>].op = "install" /\ history[<<"f">>].installs = 2
  /\ history[<<"g">>].op = "remove" /\ history[<<"g">>].installs = 1
  /\ Occurrences(Doc(files), StartMarker(<<"f">>)) = 1
  /\ Occurrences(Doc(files), StartMarker(<<"g">>)) = 0
(***************************************************************************)
(* PackageManager: installPackage and uninstallPackage                     *)
(***************************************************************************)
MaxPMSteps == 3

\* A package as installPackage meets it: the manifest file's hooks as
\* YAML.parse yields them, the rest of the manifest (valid, as normalized),
\* and the package directory.
GoodHooks ==
  Obj(<< <<"postInstall", Str(<<"echo done">>)>>, <<"preUninstall", Str(<<"echo bye">>)>> >>)

PMPackages ==
  << [manifest |-> PkgF.manifest, source |-> PkgF.source, hooks |-> GoodHooks],
     [manifest |-> [PkgF.manifest EXCEPT !.version = <<"1.1.0">>],
      source |-> PkgF.source, hooks |-> Undef],
     [manifest |-> PkgFB.manifest, source |-> PkgFB.source, hooks |-> Undef],
     [manifest |-> PkgG.manifest, source |-> PkgG.source,
      hooks |-> Obj(<< <<"postInstall", Str(<<"rm -rf /", " tmp">>)>> >>)],
     [manifest |-> PkgG.manifest, source |-> PkgG.source,
      hooks |-> Obj(<< <<"onInstall", Str(<<"echo done">>)>> >>)],
     [manifest |-> PkgG.manifest, source |-> PkgG.source,
      hooks |-> Obj(<< <<"postInstall", List(<<Str(<<"echo done">>)>>)>> >>)] >>

PMPackageIds == 1..Len(PMPackages)
PMNames == {PMPackages[id].manifest.name : id \in PMPackageIds}

\* options.variant: absent (""), or a name.
VariantOptions == {"", "minimal"}

CacheDir == <<".prism", "/", "cache">>

\* semver.eq on valid versions: a leading "v" does not count.
SemverClean(version) ==
  IF Len(version) > 0 /\ version[1] = "v" THEN Tail(version) ELSE version
SemverEq(a, b) == SemverClean(a) = SemverClean(b)

SelectVariant(manifest) ==
  IF Len(manifest.variants) <= 1 THEN "default"
  ELSE IF Declares(manifest, "standard") THEN "standard"
  ELSE manifest.variants[1].name

\* options.variant || selectVariant(manifest)
SelectedVariant(manifest, option) ==
  IF option # "" THEN option ELSE SelectVariant(manifest)

\* A conflict check that refuses every recorded name, whatever its version
\* (sensitivity check of C23).
CheckConflictsByName(cfg, manifest) == manifest.name \notin DOMAIN cfg.packages

\* TRUE when checkConflicts returns, FALSE when it throws.
CheckConflicts(cfg, manifest) ==
  ~(/\ manifest.name \in DOMAIN cfg.packages
    /\ SemverEq(cfg.packages[manifest.name].version, manifest.version))

HasHook(hooks, hookName) == Truthy(hooks) /\ Truthy(Get(hooks, hookName))

\* The record updateConfig stores: it has no `files` and no `directories`.
UpdateConfig(cfg, manifest, variant, packageSpec) ==
  [cfg EXCEPT !.packages =
     (manifest.name :> [name |-> manifest.name, version |-> manifest.version,
                        variant |-> variant, source |-> packageSpec,
                        manifest |-> manifest, hasFiles |-> FALSE,
                        files |-> <<>>, directories |-> <<>>])
     @@ @]

PMResult(t, cfg, outcome, reached, variant, hooksRun) ==
  [tree |-> t, config |-> cfg, outcome |-> outcome, stage |-> reached,
   variant |-> variant, hooksRun |-> hooksRun]

\* An install that records the package before it runs the postInstall hook
\* (sensitivity check of C27).
FinishInstallRecordingFirst(t, cfg, manifest, variant, packageSpec, hookOk) ==
  IF HasHook(manifest.hooks, "postInstall") /\ ~hookOk
  THEN PMResult(t, UpdateConfig(cfg, manifest, variant, packageSpec),
                "error", "runHooks", variant, <<"postInstall">>)
  ELSE PMResult(t, UpdateConfig(cfg, manifest, variant, packageSpec), "ok", "done", variant,
                IF HasHook(manifest.hooks, "postInstall") THEN <<"postInstall">> ELSE <<>>)

\* installPackage after installFiles returned: runHooks, then updateConfig.
FinishInstall(t, cfg, manifest, variant, packageSpec, hookOk) ==
  IF HasHook(manifest.hooks, "postInstall") /\ ~hookOk
  THEN PMResult(t, cfg, "error", "runHooks", variant, <<"postInstall">>)
  ELSE PMResult(t, UpdateConfig(cfg, manifest, variant, packageSpec), "ok", "done", variant,
                IF HasHook(manifest.hooks, "postInstall") THEN <<"postInstall">> ELSE <<>>)

\* installPackage(packageSpec, options) in an environment where the k-th
\* fs.copy throws (k = 0: none does) and the hook script exits as hookOk says.
InstallPackage(t, cfg, id, options, k, hookOk) ==
  LET p == PMPackages[id]
      hooks == NormalizeHooks(Or(p.hooks, Obj(<<>>)))
      manifest == ("hooks" :> hooks) @@ p.manifest
      variant == SelectedVariant(p.manifest, options.variant)
      t1 == EnsureDir(t, CacheDir)
  IN IF IsErr(hooks) THEN PMResult(t, cfg, "error", "fetchManifest", "", <<>>)
     ELSE IF ~ValidateHooks(hooks) THEN PMResult(t, cfg, "error", "validate", "", <<>>)
     ELSE IF ~cfg.initialized THEN PMResult(t, cfg, "error", "getConfig", variant, <<>>)
     ELSE IF ~CheckConflicts(cfg, p.manifest)
     THEN PMResult(t, cfg, "error", "checkConflicts", variant, <<>>)
     ELSE IF options.dryRun THEN PMResult(t, cfg, "dryRun", "showInstallPlan", variant, <<>>)
     ELSE IF k \in 1..CopyCount(p.source, p.manifest, variant)
     THEN PMResult(InstallFilesFailingAt(t1, p.source, p.manifest, variant, k), cfg,
                   "error", "installFiles", variant, <<>>)
     ELSE FinishInstall(InstallFiles(t1, p.source, p.manifest, variant), cfg,
                        manifest, variant, id, hookOk)

UninstallPackage(t, cfg, packageName, hookOk) ==
  IF ~cfg.initialized THEN PMResult(t, cfg, "error", "getConfig", "", <<>>)
  ELSE IF packageName \notin DOMAIN cfg.packages
  THEN PMResult(t, cfg, "error", "notInstalled", "", <<>>)
  ELSE LET packageInfo == cfg.packages[packageName]
           runs == HasHook(packageInfo.manifest.hooks, "preUninstall")
       IN IF runs /\ ~hookOk
          THEN PMResult(t, cfg, "error", "runHooks", "", <<"preUninstall">>)
          ELSE PMResult(RemovePackageFiles(t, packageName, packageInfo),
                        [cfg EXCEPT !.packages =
                           [n \in DOMAIN @ \ {packageName} |-> @[n]]],
                        "ok", "done", "",
                        IF runs THEN <<"preUninstall">> ELSE <<>>)

(***************************************************************************)
(* Specification SpecPM                                                    *)
(***************************************************************************)
PMSummary(l) == IF l.op = "none" THEN <<"none", 0, "">> ELSE <<l.op, l.pkg, l.outcome>>

InitPM ==
  /\ \E t \in InitialTrees : files = t.files /\ dirs = t.dirs
  /\ config \in {NoConfig, [initialized |-> TRUE, packages |-> <<>>]}
  /\ pm = NoOp
  /\ steps = 0
  /\ last = NoOp
  /\ history = NoHistory
  /\ IdleMatcher
  /\ IdleParser
  /\ IdleCaller
  /\ IdlePackager

PMDone(op, pkg, options, r) ==
  /\ files' = r.tree.files
  /\ dirs' = r.tree.dirs
  /\ config' = r.config
  /\ pm' = [op |-> op, pkg |-> pkg, options |-> options, outcome |-> r.outcome,
            stage |-> r.stage, variant |-> r.variant, hooksRun |-> r.hooksRun,
            preFiles |-> files, preDirs |-> dirs, preConfig |-> config,
            prev |-> PMSummary(pm)]
  /\ steps' = steps + 1
  /\ UNCHANGED <<mPath, mPattern, mResult, last, raw, norm, renorm, stage,
                 callVars, packVars, history>>

\* The environment is asked only for what the run consumes: no copy is made
\* in a dry run, and the hook's exit matters only when the hook is reached.
DoInstallPackage ==
  \E id \in PMPackageIds, variant \in VariantOptions, dryRun \in BOOLEAN,
     hookOk \in BOOLEAN :
    \E k \in 0..CopyCount(PMPackages[id].source, PMPackages[id].manifest,
                          SelectedVariant(PMPackages[id].manifest, variant)) :
    /\ steps < MaxPMSteps
    /\ dryRun => k = 0
    /\ ~hookOk => /\ k = 0 /\ ~dryRun
                  /\ HasHook(PMPackages[id].hooks, "postInstall")
    /\ PMDone("installPackage", id, [variant |-> variant, dryRun |-> dryRun],
              InstallPackage(Tree, config, id, [variant |-> variant, dryRun |-> dryRun],
                             k, hookOk))

DoUninstallPackage ==
  \E packageName \in PMNames, hookOk \in BOOLEAN :
    /\ steps < MaxPMSteps
    /\ ~hookOk => config.initialized /\ packageName \in DOMAIN config.packages
    /\ PMDone("uninstallPackage", packageName, [variant |-> "", dryRun |-> FALSE],
              UninstallPackage(Tree, config, packageName, hookOk))

NextPM == DoInstallPackage \/ DoUninstallPackage

SpecPM == InitPM /\ [][NextPM]_vars
(***************************************************************************)
(* PackageManager properties                                               *)
(***************************************************************************)
PMTree == [files |-> files, dirs |-> dirs]
PMPreTree == [files |-> pm.preFiles, dirs |-> pm.preDirs]

\* A hook entry the specification names as refused: an unknown hook name, a
\* body that is no string, or a body containing 'rm -rf /'.
RefusedHooks(hooks) ==
  /\ hooks.k = "obj"
  /\ \E i \in 1..Len(hooks.v) :
       \/ hooks.v[i][1] \notin {"preInstall", "postInstall", "preUninstall",
                                "postUninstall", "preUpdate", "postUpdate"}
       \/ hooks.v[i][2].k # "str"
       \/ \E j \in 1..Len(hooks.v[i][2].v) : hooks.v[i][2].v[j] = "rm -rf /"

\* C22: a manifest with a hook of unknown name, with a body that is no
\* string, or with a body containing 'rm -rf /' is rejected by parsing and
\* validation: installPackage throws before it installs a file or runs a
\* hook, and leaves the tree and the configuration as they were.
C22_BadHookNeverInstalled ==
  (pm.op = "installPackage" /\ RefusedHooks(PMPackages[pm.pkg].hooks)) =>
    /\ pm.outcome = "error"
    /\ pm.stage \in {"fetchManifest", "validate"}
    /\ pm.hooksRun = <<>>
    /\ PMTree = PMPreTree
    /\ config = pm.preConfig

\* The package whose postInstall script contains 'rm -rf /' was handed to
\* installPackage of an initialized project and refused by validate.
C22_Witness ==
  /\ pm.op = "installPackage" /\ pm.pkg = 4
  /\ pm.preConfig.initialized
  /\ pm.stage = "validate"

C23_UpgradeWitness ==
  /\ pm.op = "installPackage" /\ pm.pkg = 2
  /\ pm.preConfig.initialized
  /\ <<"f">> \in DOMAIN pm.preConfig.packages
  /\ pm.preConfig.packages[<<"f">>].version = <<"1.0.0">>
  /\ pm.outcome = "ok"
  /\ config.packages[<<"f">>].version = <<"1.1.0">>

\* The destinations that the copies of a run of installFiles write.
CopiedTo(id, variant) ==
  LET p == PMPackages[id]
      todo == InstallSteps(p.source, p.manifest.structure,
                           InstallVariant(p.manifest, variant))
  IN {StepDest(todo[i], p.manifest.name) : i \in Copies(todo)}

\* C27: installPackage records the package in config.packages only after
\* installFiles completed and the postInstall hook, if any, succeeded; when
\* installFiles or the hook throws, the configuration is as it was while
\* the files copied so far stay in the tree.
C27_RecordedOnlyAfterSuccess ==
  pm.op = "installPackage" =>
    LET p == PMPackages[pm.pkg]
    IN /\ config # pm.preConfig =>
            /\ pm.outcome = "ok" /\ pm.stage = "done"
            /\ CopiedTo(pm.pkg, pm.variant) \subseteq DOMAIN files
            /\ HasHook(p.hooks, "postInstall") => pm.hooksRun = <<"postInstall">>
       /\ pm.outcome = "ok" =>
            /\ p.manifest.name \in DOMAIN config.packages
            /\ config.packages[p.manifest.name].version = p.manifest.version
       /\ pm.outcome = "error" => config = pm.preConfig
       /\ pm.stage = "runHooks" =>
            /\ CopiedTo(pm.pkg, pm.variant) \subseteq DOMAIN files
            /\ CopiedTo(pm.pkg, pm.variant) # {}
       /\ pm.stage = "installFiles" =>
            \A q \in DOMAIN pm.preFiles \cup (DOMAIN files \ {ClaudeMdPath}) :
              q \in DOMAIN files /\ (q \notin DOMAIN pm.preFiles => q \in CopiedTo(pm.pkg, pm.variant))

\* The postInstall hook of "f" failed: the files are installed, "f" is not
\* recorded.
C27_Witness ==
  /\ pm.op = "installPackage" /\ pm.pkg = 1 /\ pm.stage = "runHooks"
  /\ pm.outcome = "error"
  /\ <<"f">> \notin DOMAIN config.packages
  /\ \E q \in DOMAIN files \ DOMAIN pm.preFiles : q \in CopiedTo(1, pm.variant)

\* C29: without an explicit variant, installPackage installs exactly the
\* files of a declared variant, and of the only declared variant when the
\* manifest declares exactly one.
C29_InstallsADeclaredVariant ==
  (pm.op = "installPackage" /\ pm.outcome = "ok" /\ pm.options.variant = "") =>
    LET p == PMPackages[pm.pkg]
        Installs(v) ==
          PMTree = InstallFiles(EnsureDir(PMPreTree, CacheDir), p.source, p.manifest, v.name)
    IN /\ \E i \in 1..Len(p.manifest.variants) : Installs(p.manifest.variants[i])
       /\ Len(p.manifest.variants) = 1 => Installs(p.manifest.variants[1])

\* C30: after a successful installPackage of P followed by a successful
\* uninstallPackage of P, P is not in config.packages and none of the files
\* the install copied is in the tree.
C30_UninstallRemovesCopiedFiles ==
  (/\ pm.op = "uninstallPackage" /\ pm.outcome = "ok"
   /\ pm.prev[1] = "installPackage" /\ pm.prev[3] = "ok"
   /\ PMPackages[pm.prev[2]].manifest.name = pm.pkg) =>
    /\ pm.pkg \notin DOMAIN config.packages
    /\ CopiedTo(pm.prev[2], pm.preConfig.packages[pm.pkg].variant) \cap DOMAIN files = {}
====
